---- MODULE Spec2Model ----
(***************************************************************************)
(* Breakpoint session protocol of wc3_interpreter.py: the session state    *)
(* machine (current / pending / halted flags), the correlated send-receive *)
(* over polled files, and the event loop that owns that state.             *)
(*                                                                         *)
(* Byte strings are sequences of tokens; a thread id, a decimal digit      *)
(* string and the field separator are single tokens.                       *)
(***************************************************************************)
EXTENDS Integers, Sequences, FiniteSets, TLC

\* ------------------------------------------------------------------ bounds
\* create_file is given contents of up to MaxChunks full chunks and one byte.
MaxChunks == 2
\* The Lua files named by bl have up to MaxLuaLines lines.
MaxLuaLines == 3
\* The sources given to the locator have up to MaxSourceLines lines.
MaxSourceLines == 4
\* stdin_queue and file_change_queue hold up to MaxQueue entries each.
MaxQueue == 1
\* A channel sends requests only while its next index is below MaxIndex.
MaxIndex == 2
\* The remote halts threads at most MaxHalts times in all.
MaxHalts == 3
\* At most MaxInFiles request files wait unprocessed for the remote.
MaxInFiles == 1

Threads == {"T1", "T2", "T3"}

\* --------------------------------------------------------------- constants
FIELD_SEP == "<SEP>"

\* Python's None where bytes or str are expected (distinct from b'' and "").
None == <<"None">>
\* current_breakpoint = None
NoBreakpoint == <<>>

\* The exception an assert raises.
AssertionError == <<"AssertionError">>

\* A file of FILES_ROOT: absent, or present with its decoded payload.  late
\* marks a response the remote wrote for a request that had timed out, torn
\* a file whose wrapper is not whole: it holds no complete Preload call and
\* not both of PreloadStart and PreloadEnd.
NoFile == [exists |-> FALSE, payload |-> <<>>, late |-> FALSE, torn |-> FALSE]
File(p) == [exists |-> TRUE, payload |-> p, late |-> FALSE, torn |-> FALSE]
TornFile == [exists |-> TRUE, payload |-> <<>>, late |-> FALSE, torn |-> TRUE]
\* The response to the abandoned request r.
LateFile(p, r) ==
    [exists |-> TRUE, payload |-> p, late |-> TRUE, torn |-> FALSE, of |-> r]

Digits == <<"0", "1", "2", "3", "4", "5", "6", "7", "8", "9">>
\* str(n) for the indices the model reaches.
Str(n) == Digits[n + 1]
\* int(s): the index whose decimal form is s, -1 when s is not a number
\* (the source raises ValueError there).
ParseInt(s) == IF \E n \in 0..9 : Digits[n + 1] = s
               THEN CHOOSE n \in 0..9 : Digits[n + 1] = s
               ELSE -1

VARIABLES
    pc,                   \* position of the event loop (main)
    caller,               \* who is blocked in send_data_to_game; after a
                          \* command that sends nothing, that command
    req,                  \* thread_id / cmd_index / in_file of the call
    ret,                  \* value the last send_data_to_game call returned
    outcome,              \* how that call ended: "matched" or "timeout";
                          \* after a command that sends nothing, the
                          \* message it printed
    written,              \* create_file calls made by the current call
    at_call,              \* the command indices when the call was entered
    current_breakpoint,
    pending_breakpoints,
    thread_state_is_bp,
    bp_command_indices,
    nextFile,
    in_files,             \* request files in<N>.txt / bp_in_<t>_<N>.txt the
                          \* remote has not processed; abandoned marks the
                          \* file of a call that timed out
    out_file,             \* out.txt
    bp_out_file,          \* bp_out.txt
    bp_threads_file,      \* bp_threads.txt
    bp_data_file,         \* bp_data_<t>.txt
    halts,                \* number of halts the remote has announced
    fresh,                \* the thread's latest halt was not observed yet
    stale,                \* tags of the requests that were abandoned since
                          \* the indices were last set by jump or restart
                          \* and whose request file or late response is
                          \* still in FILES_ROOT
    disk,                 \* one file of FILES_ROOT, byte by byte
    source,               \* the content create_file wrote disk from, None
                          \* when disk was not written by create_file
    returned,             \* what the last codec call returned or raised
    op,                   \* the last codec call
    located,              \* the last run of the function locator: its
                          \* source, its argument and what it found
    stdin_queue,          \* console lines read and not yet dispatched
    file_change_queue,    \* paths of watched files changed and not yet
                          \* re-sent
    watched_files         \* file_watcher.watched_files

vars == <<pc, caller, req, ret, outcome, written, at_call, current_breakpoint,
          pending_breakpoints, thread_state_is_bp, bp_command_indices,
          nextFile, in_files, out_file, bp_out_file, bp_threads_file,
          bp_data_file, halts, fresh, stale, disk, source, returned, op,
          located, stdin_queue, file_change_queue, watched_files>>

session == <<current_breakpoint, pending_breakpoints, thread_state_is_bp>>
indices == <<bp_command_indices, nextFile>>
files   == <<in_files, out_file, bp_out_file, bp_threads_file, bp_data_file>>
remote  == <<halts>>
ghost   == <<fresh, stale>>
codec   == <<disk, source, returned, op>>
queues  == <<stdin_queue, file_change_queue>>
\* The variables of the pure functions: the file codec and the locator.
pure    == <<codec, located>>
\* Everything but the variables of the pure functions.
system  == <<pc, caller, req, ret, outcome, written, at_call, session,
             indices, files, remote, ghost, queues, watched_files>>

NoReq == [thread_id |-> "", cmd_index |-> -1, data |-> <<>>]
NoSnapshot == [bp |-> <<>>, nf |-> -1]
\* located before the locator has run.
NotLocated ==
    [op |-> "none", lines |-> <<>>, func_name |-> "", line_number |-> 0,
     span |-> None, after_line |-> 0, new_content |-> <<>>, respan |-> None]

\* ------------------------------------------------------------ pure helpers
IndexOfSep(s) == IF \E i \in 1..Len(s) : s[i] = FIELD_SEP
                 THEN CHOOSE i \in 1..Len(s) :
                        s[i] = FIELD_SEP /\ \A j \in 1..(i - 1) : s[j] # FIELD_SEP
                 ELSE 0

\* bytes.split(FIELD_SEP)
RECURSIVE SplitSep(_)
SplitSep(s) ==
    LET i == IndexOfSep(s)
    IN IF i = 0 THEN <<s>>
       ELSE <<SubSeq(s, 1, i - 1)>> \o SplitSep(SubSeq(s, i + 1, Len(s)))

\* parse_nonloadable_file: None for an absent file and for a wrapper that
\* holds no payload; on a torn file the assert fails.
ParseNonloadableFile(f) ==
    IF ~f.exists THEN None
    ELSE IF f.torn THEN AssertionError
    ELSE IF f.payload = <<>> THEN None
    ELSE f.payload

\* parse_nonloadable_file(f) raises.
Raises(f) == ParseNonloadableFile(f) = AssertionError

\* parse_indexed_output: (index, result) split at the first separator.
ParseIndexedOutput(content) ==
    IF content = None \/ content = <<>> THEN <<None, None>>
    ELSE LET i == IndexOfSep(content)
         IN IF i > 0
            THEN <<SubSeq(content, 1, i - 1), SubSeq(content, i + 1, Len(content))>>
            ELSE <<content, <<>>>>

\* parse_bp_threads_file: the thread ids listed in bp_threads.txt.
ParseBpThreadsFile(f) ==
    LET content == ParseNonloadableFile(f)
    IN IF ~f.exists \/ content = None THEN <<>>
       ELSE LET parts == SplitSep(content)
                kept  == SelectSeq(parts, LAMBDA p : p # <<>>)
            IN [k \in 1..Len(kept) |-> kept[k][1]]

\* The key/value loop of parse_bp_data_file over parts[i], parts[i+1], ...
RECURSIVE ParsePairs(_, _, _)
ParsePairs(parts, i, info) ==
    IF i + 1 > Len(parts) THEN info
    ELSE LET key   == parts[i]
             value == parts[i + 1]
         IN ParsePairs(parts, i + 2,
              IF key = <<"bp_id">> THEN [info EXCEPT !.bp_id = value]
              ELSE IF key = <<"stack">> THEN [info EXCEPT !.stack = value]
              ELSE [info EXCEPT !.locals_values = (key :> value) @@ @])

\* {'thread_id': thread_id, 'locals_values': {}}: a record before any pair
\* is read; a key the file does not carry is None in the record.
BareInfo(thread_id) ==
    [thread_id |-> thread_id, bp_id |-> None, stack |-> None,
     locals_values |-> <<>>]

\* The None that parse_bp_data_file returns (a record names a thread).
NoInfo == BareInfo("")

\* parse_bp_data_file: NoInfo, or the record of the halt.
ParseBpDataFile(thread_id, f) ==
    LET content == ParseNonloadableFile(f)
    IN IF ~f.exists \/ content = None THEN NoInfo
       ELSE ParsePairs(SplitSep(content), 1, BareInfo(thread_id))

\* expected_prefix of send_data_to_game.
ExpectedPrefix(thread_id, cmd_index) ==
    IF thread_id # "" THEN <<thread_id, ":", Str(cmd_index)>>
    ELSE <<Str(cmd_index)>>

\* ------------------------------------------------- session state machine
\* A session value s is [cur, pend, flags]: current_breakpoint,
\* pending_breakpoints and thread_state_is_bp.
Session == [cur |-> current_breakpoint, pend |-> pending_breakpoints,
            flags |-> thread_state_is_bp]

\* handle_breakpoint_event that makes every observed halt current.
HandleBreakpointEventAlwaysCurrent(s, thread_id, info) ==
    [s EXCEPT !.cur = <<thread_id, info>>]

\* handle_breakpoint_event: current if there is none, else queued at the tail.
HandleBreakpointEvent(s, thread_id, info) ==
    IF s.cur = NoBreakpoint
    THEN [s EXCEPT !.cur = <<thread_id, info>>]
    ELSE [s EXCEPT !.pend = Append(s.pend, <<thread_id, info>>)]

\* Does the loop body of check_for_new_breakpoints observe thread_id?
IsNewHalt(s, thread_id, info) ==
    /\ info # NoInfo
    /\ ~s.flags[thread_id]

\* The for loop of check_for_new_breakpoints over the listed threads.
RECURSIVE CheckForNewBreakpoints(_, _, _)
CheckForNewBreakpoints(listed, i, s) ==
    IF i > Len(listed) THEN s
    ELSE LET thread_id == listed[i]
             info      == ParseBpDataFile(thread_id, bp_data_file[thread_id])
         IN IF IsNewHalt(s, thread_id, info)
            THEN CheckForNewBreakpoints(listed, i + 1,
                   HandleBreakpointEvent(
                     [s EXCEPT !.flags[thread_id] = TRUE], thread_id, info))
            ELSE CheckForNewBreakpoints(listed, i + 1, s)

\* handle_continue_command that pops the last entry of pending.
ResumeCurrentLifo(s, thread_id) ==
    LET cleared == [s.flags EXCEPT ![thread_id] = FALSE]
        n       == Len(s.pend)
    IN IF s.pend # <<>>
       THEN [cur |-> s.pend[n], pend |-> SubSeq(s.pend, 1, n - 1),
             flags |-> cleared]
       ELSE [cur |-> NoBreakpoint, pend |-> s.pend, flags |-> cleared]

\* handle_continue_command that deletes every flag.
ResumeCurrentClearsAll(s, thread_id) ==
    LET cleared == [t \in Threads |-> FALSE]
    IN IF s.pend # <<>>
       THEN [cur |-> Head(s.pend), pend |-> Tail(s.pend), flags |-> cleared]
       ELSE [cur |-> NoBreakpoint, pend |-> s.pend, flags |-> cleared]

\* handle_continue_command after send_data_to_game("continue") returned:
\* the flag of the resumed thread is deleted and the head of pending, if
\* any, becomes current.
ResumeCurrent(s, thread_id) ==
    LET cleared == [s.flags EXCEPT ![thread_id] = FALSE]
    IN IF s.pend # <<>>
       THEN [cur |-> Head(s.pend), pend |-> Tail(s.pend), flags |-> cleared]
       ELSE [cur |-> NoBreakpoint, pend |-> s.pend, flags |-> cleared]

\* handle_thread_command: rebinds current when bp_threads.txt lists the id.
HandleThreadCommand(s, new_thread_id) ==
    LET threads_str == ParseBpThreadsFile(bp_threads_file)
    IN IF \E k \in 1..Len(threads_str) : threads_str[k] = new_thread_id
       THEN LET new_info == ParseBpDataFile(new_thread_id,
                                            bp_data_file[new_thread_id])
            IN IF new_info # NoInfo
               THEN [s EXCEPT !.cur = <<new_thread_id, new_info>>]
               ELSE [s EXCEPT !.cur = <<new_thread_id, BareInfo(new_thread_id)>>]
       ELSE s

SetSession(s) ==
    /\ current_breakpoint' = s.cur
    /\ pending_breakpoints' = s.pend
    /\ thread_state_is_bp' = s.flags

\* ------------------------------------------------ correlated send/receive
\* An allocation that forgets nextFile += 1.
AllocateIndexDefaultStuck ==
    IF current_breakpoint # NoBreakpoint
    THEN LET thread_id == current_breakpoint[1]
             cmd_index == bp_command_indices[thread_id]
         IN [thread_id |-> thread_id, cmd_index |-> cmd_index,
             bp |-> [bp_command_indices EXCEPT ![thread_id] = cmd_index + 1],
             nf |-> nextFile]
    ELSE [thread_id |-> "", cmd_index |-> nextFile,
          bp |-> bp_command_indices, nf |-> nextFile]

\* An allocation that forgets bp_command_indices[thread_id] = cmd_index + 1.
AllocateIndexBpStuck ==
    IF current_breakpoint # NoBreakpoint
    THEN LET thread_id == current_breakpoint[1]
             cmd_index == bp_command_indices[thread_id]
         IN [thread_id |-> thread_id, cmd_index |-> cmd_index,
             bp |-> bp_command_indices, nf |-> nextFile]
    ELSE [thread_id |-> "", cmd_index |-> nextFile,
          bp |-> bp_command_indices, nf |-> nextFile + 1]

\* An allocation that starts the default channel over after index 1.
AllocateIndexWraps ==
    IF current_breakpoint # NoBreakpoint
    THEN LET thread_id == current_breakpoint[1]
             cmd_index == bp_command_indices[thread_id]
         IN [thread_id |-> thread_id, cmd_index |-> cmd_index,
             bp |-> [bp_command_indices EXCEPT ![thread_id] = cmd_index + 1],
             nf |-> nextFile]
    ELSE [thread_id |-> "", cmd_index |-> nextFile,
          bp |-> bp_command_indices,
          nf |-> IF nextFile >= 1 THEN 0 ELSE nextFile + 1]

\* An allocation on a breakpoint channel that advances nextFile as well.
AllocateIndexBothAdvance ==
    IF current_breakpoint # NoBreakpoint
    THEN LET thread_id == current_breakpoint[1]
             cmd_index == bp_command_indices[thread_id]
         IN [thread_id |-> thread_id, cmd_index |-> cmd_index,
             bp |-> [bp_command_indices EXCEPT ![thread_id] = cmd_index + 1],
             nf |-> nextFile + 1]
    ELSE [thread_id |-> "", cmd_index |-> nextFile,
          bp |-> bp_command_indices, nf |-> nextFile + 1]

\* An allocation that advances the channel by two.
AllocateIndexSkips ==
    IF current_breakpoint # NoBreakpoint
    THEN LET thread_id == current_breakpoint[1]
             cmd_index == bp_command_indices[thread_id]
         IN [thread_id |-> thread_id, cmd_index |-> cmd_index,
             bp |-> [bp_command_indices EXCEPT ![thread_id] = cmd_index + 2],
             nf |-> nextFile]
    ELSE [thread_id |-> "", cmd_index |-> nextFile,
          bp |-> bp_command_indices, nf |-> nextFile + 2]

\* The index allocation of send_data_to_game: the channel of the current
\* context, its next index, and the counters after the allocation.
AllocateIndex ==
    IF current_breakpoint # NoBreakpoint
    THEN LET thread_id == current_breakpoint[1]
             cmd_index == bp_command_indices[thread_id]
         IN [thread_id |-> thread_id, cmd_index |-> cmd_index,
             bp |-> [bp_command_indices EXCEPT ![thread_id] = cmd_index + 1],
             nf |-> nextFile]
    ELSE [thread_id |-> "", cmd_index |-> nextFile,
          bp |-> bp_command_indices, nf |-> nextFile + 1]

\* create_file(in_file, data): the request file replaces one of that name.
CreateFile(fs, thread_id, cmd_index, data) ==
    {f \in fs : ~(f.thread_id = thread_id /\ f.cmd_index = cmd_index)}
      \cup {[thread_id |-> thread_id, cmd_index |-> cmd_index, data |-> data,
             abandoned |-> FALSE]}

\* out_file of the call.
OutFile(thread_id) == IF thread_id # "" THEN bp_out_file ELSE out_file

\* A poll that accepts any non-empty tag.
ResponseMatchesAnyTag(f, expected_prefix) ==
    /\ f.exists
    /\ LET content == ParseNonloadableFile(f)
       IN /\ content # None /\ content # <<>>
          /\ LET index == ParseIndexedOutput(content)[1]
             IN index # None /\ index # <<>>

\* One poll of the while loop: does the response file answer the request?
ResponseMatches(f, expected_prefix) ==
    /\ f.exists
    /\ LET content == ParseNonloadableFile(f)
       IN /\ content # None /\ content # <<>>
          /\ LET index == ParseIndexedOutput(content)[1]
             IN index # None /\ index # <<>> /\ index = expected_prefix

\* result_str: the decoded result, None when the result is empty.
ResultStr(f) ==
    LET result == ParseIndexedOutput(ParseNonloadableFile(f))[2]
    IN IF result # <<>> /\ result # None THEN result ELSE None

\* A step of the event loop outside send_data_to_game forgets the last call.
NoCall ==
    /\ req' = NoReq /\ written' = 0 /\ ret' = None /\ outcome' = "none"
    /\ at_call' = NoSnapshot /\ caller' = "none"

\* A command returns without a call of send_data_to_game, having printed msg.
Done(who, msg) ==
    /\ req' = NoReq /\ written' = 0 /\ ret' = None /\ outcome' = msg
    /\ at_call' = NoSnapshot /\ caller' = who

\* send_data_to_game up to the poll loop: allocate, write the request, wait.
SendDataToGame(data, who) ==
    LET a == AllocateIndex
    IN /\ a.cmd_index < MaxIndex
       /\ Cardinality(in_files) < MaxInFiles
       /\ bp_command_indices' = a.bp
       /\ nextFile' = a.nf
       /\ req' = [thread_id |-> a.thread_id, cmd_index |-> a.cmd_index,
                  data |-> data]
       /\ in_files' = CreateFile(in_files, a.thread_id, a.cmd_index, data)
       /\ written' = 1
       /\ at_call' = [bp |-> bp_command_indices, nf |-> nextFile]
       /\ pc' = "wait"
       /\ caller' = who
       /\ ret' = None /\ outcome' = "none"

\* A return after which continue forgets the command index of the thread
\* it has resumed.
AfterSendResetsIndex ==
    /\ IF caller = "continue"
       THEN /\ SetSession(ResumeCurrent(Session, req.thread_id))
            /\ bp_command_indices' =
                 [bp_command_indices EXCEPT ![req.thread_id] = 0]
       ELSE UNCHANGED <<session, bp_command_indices>>
    /\ pc' = IF caller = "file" THEN "queues" ELSE "poll"
    /\ caller' = "none"
    /\ UNCHANGED <<req, written, at_call, nextFile, out_file, bp_out_file,
                   bp_threads_file, bp_data_file, remote, pure, watched_files,
                   queues, fresh>>

\* What the caller does once send_data_to_game has returned.
AfterSend ==
    /\ IF caller = "continue"
       THEN SetSession(ResumeCurrent(Session, req.thread_id))
       ELSE UNCHANGED session
    /\ pc' = IF caller = "file" THEN "queues" ELSE "poll"
    /\ caller' = "none"
    /\ UNCHANGED <<req, written, at_call, indices, out_file, bp_out_file,
                   bp_threads_file, bp_data_file, remote, pure, watched_files,
                   queues, fresh>>

\* The tag of a request, for the history kept in stale.
Tag(r) == <<r.thread_id, r.cmd_index>>

\* The tags of the abandoned requests that still have a file in FILES_ROOT:
\* the request file, or the response the remote wrote late.
Around(fs, o, b) ==
    {Tag(f) : f \in {g \in fs : g.abandoned}}
      \cup {Tag(f.of) : f \in {g \in {o, b} : g.exists /\ g.late}}

\* The poll loop finds the matching response and returns its result.
WaitMatch ==
    /\ pc = "wait"
    /\ ResponseMatches(OutFile(req.thread_id),
                       ExpectedPrefix(req.thread_id, req.cmd_index))
    /\ ret' = ResultStr(OutFile(req.thread_id))
    /\ outcome' = "matched"
    /\ in_files' = in_files
    /\ stale' = stale
    /\ AfterSend

\* One poll of the while loop finds a response file it cannot decode: the
\* AssertionError of parse_nonloadable_file leaves send_data_to_game,
\* handle_command and main, none of which catches it.
WaitRaise ==
    /\ pc = "wait"
    /\ Raises(OutFile(req.thread_id))
    /\ pc' = "crashed"
    /\ outcome' = "AssertionError"
    /\ UNCHANGED <<caller, req, ret, written, at_call, session, indices,
                   files, remote, pure, watched_files, queues, ghost>>

\* The poll loop runs out of time and returns None.
WaitTimeout ==
    /\ pc = "wait"
    /\ ret' = None
    /\ outcome' = "timeout"
    /\ in_files' = {IF f.thread_id = req.thread_id /\ f.cmd_index = req.cmd_index
                    THEN [f EXCEPT !.abandoned = TRUE] ELSE f : f \in in_files}
    /\ stale' = stale \cup {Tag(f) : f \in {g \in in_files : Tag(g) = Tag(req)}}
    /\ AfterSend

\* ------------------------------------------------------------- event loop
\* remove_all_files: every in*.txt, out.txt and bp_*.txt is deleted.
RemoveAllFiles ==
    /\ in_files' = {}
    /\ out_file' = NoFile
    /\ bp_out_file' = NoFile
    /\ bp_threads_file' = NoFile
    /\ bp_data_file' = [t \in Threads |-> NoFile]

\* The listed threads check_for_new_breakpoints gets through before
\* parse_nonloadable_file raises: none when bp_threads.txt is torn, else
\* those in front of the first thread whose record file is torn.
ListedBeforeRaise ==
    IF Raises(bp_threads_file) THEN <<>>
    ELSE LET listed == ParseBpThreadsFile(bp_threads_file)
             bad == {k \in 1..Len(listed) : Raises(bp_data_file[listed[k]])}
         IN IF bad = {} THEN listed
            ELSE SubSeq(listed, 1, (CHOOSE k \in bad : \A j \in bad : k <= j) - 1)

PollRaises ==
    \/ Raises(bp_threads_file)
    \/ ListedBeforeRaise # ParseBpThreadsFile(bp_threads_file)

\* main, first step of a cycle: check_for_new_breakpoints().
PollBreakpoints ==
    /\ pc = "poll"
    /\ ~PollRaises
    /\ LET listed == ParseBpThreadsFile(bp_threads_file)
           s      == CheckForNewBreakpoints(listed, 1, Session)
       IN /\ SetSession(s)
          /\ fresh' =
               [t \in Threads |->
                  IF s.flags[t] /\ ~thread_state_is_bp[t] THEN FALSE
                  ELSE fresh[t]]
    /\ pc' = "queues"
    /\ NoCall
    /\ UNCHANGED <<indices, files, remote, pure, watched_files, queues, stale>>

\* main, first step of a cycle, when a file of the listing cannot be
\* decoded: the AssertionError ends main.
PollRaise ==
    /\ pc = "poll"
    /\ PollRaises
    /\ LET s == CheckForNewBreakpoints(ListedBeforeRaise, 1, Session)
       IN /\ SetSession(s)
          /\ fresh' =
               [t \in Threads |->
                  IF s.flags[t] /\ ~thread_state_is_bp[t] THEN FALSE
                  ELSE fresh[t]]
    /\ pc' = "crashed"
    /\ Done("main", "AssertionError")
    /\ UNCHANGED <<indices, files, remote, pure, watched_files, queues, stale>>

\* handle_file_change_event -> send_file_to_game: the file is sent; a path
\* that no longer exists is reported and nothing is sent.
HandleFileChangeEvent(path_exists) ==
    IF path_exists
    THEN /\ SendDataToGame(<<"file">>, "file")
         /\ UNCHANGED <<session, out_file, bp_out_file, bp_threads_file,
                        bp_data_file, remote, pure, watched_files, ghost>>
    ELSE /\ NoCall
         /\ UNCHANGED <<pc, session, indices, files, remote, pure,
                        watched_files, ghost>>

\* main, second step: a file change is put on file_change_queue and taken
\* from it in the same cycle.
FileChangeEvent ==
    /\ pc = "queues"
    /\ UNCHANGED queues
    /\ \E path_exists \in BOOLEAN : HandleFileChangeEvent(path_exists)

\* A drain that does not wait for send_data_to_game to return.
DrainFileChangeAnytime ==
    /\ pc \in {"queues", "wait"}
    /\ file_change_queue # <<>>
    /\ file_change_queue' = Tail(file_change_queue)
    /\ stdin_queue' = stdin_queue
    /\ \E path_exists \in BOOLEAN : HandleFileChangeEvent(path_exists)

\* main, second step: the path at the head of file_change_queue is taken
\* and handled.
DrainFileChange ==
    /\ pc = "queues"
    /\ file_change_queue # <<>>
    /\ file_change_queue' = Tail(file_change_queue)
    /\ stdin_queue' = stdin_queue
    /\ \E path_exists \in BOOLEAN : HandleFileChangeEvent(path_exists)

\* main: file_change_queue and stdin_queue are both empty; the cycle ends.
QueuesEmpty ==
    /\ pc = "queues"
    /\ file_change_queue = <<>> /\ stdin_queue = <<>>
    /\ pc' = "poll"
    /\ NoCall
    /\ UNCHANGED <<session, indices, files, remote, pure, watched_files,
                   queues, ghost>>

\* Console lines, each a sequence of words: the session commands ...
SessionLines ==
    {<<"restart">>, <<"continue">>}
      \cup {<<"thread", t>> : t \in {"T2", "T9"}}

\* ... the lines that exercise the correlation of requests and responses
\* on both kinds of channel ...
CorrelationLines ==
    {<<"return", "gold">>, <<"thread", "T2">>, <<"jump", "0">>}

\* ... and the lines of a whole transport session.
TransportLines ==
    CorrelationLines \cup {<<"restart">>, <<"list">>, <<"quit">>}

\* The command a first word selects in handle_command: each branch tests
\* main_cmd against a name and its short forms.
Command(main_cmd) ==
    IF main_cmd \in {"q", "exit"} THEN "quit"
    ELSE IF main_cmd = "h" THEN "help"
    ELSE IF main_cmd = "j" THEN "jump"
    ELSE IF main_cmd = "l" THEN "list"
    ELSE IF main_cmd = "t" THEN "thread"
    ELSE IF main_cmd = "i" THEN "info"
    ELSE IF main_cmd = "c" THEN "continue"
    ELSE IF main_cmd = "e" THEN "enable"
    ELSE IF main_cmd = "d" THEN "disable"
    ELSE IF main_cmd = "b" THEN "break"
    ELSE main_cmd

\* handle_command: quit / q / exit.
CmdQuit(line) ==
    /\ Head(line) \in {"quit", "q", "exit"}
    /\ watched_files' = {}
    /\ RemoveAllFiles
    /\ pc' = "exit"
    /\ NoCall
    /\ stale' = {}
    /\ UNCHANGED <<session, indices, remote, pure, fresh>>

\* A restart that keeps the per-thread command indices.
CmdRestartKeepsIndices(line) ==
    /\ Head(line) = "restart"
    /\ watched_files' = {}
    /\ RemoveAllFiles
    /\ nextFile' = 0
    /\ current_breakpoint' = NoBreakpoint
    /\ pending_breakpoints' = <<>>
    /\ thread_state_is_bp' = [t \in Threads |-> FALSE]
    /\ fresh' = [t \in Threads |-> FALSE]
    /\ stale' = {}
    /\ pc' = "poll"
    /\ Done("restart", "State reset")
    /\ UNCHANGED <<bp_command_indices, remote, pure>>

\* handle_command: restart.
CmdRestart(line) ==
    /\ Head(line) = "restart"
    /\ watched_files' = {}
    /\ RemoveAllFiles
    /\ nextFile' = 0
    /\ bp_command_indices' = [t \in Threads |-> 0]
    /\ current_breakpoint' = NoBreakpoint
    /\ pending_breakpoints' = <<>>
    /\ thread_state_is_bp' = [t \in Threads |-> FALSE]
    /\ fresh' = [t \in Threads |-> FALSE]
    /\ stale' = {}
    /\ pc' = "poll"
    /\ Done("restart", "State reset")
    /\ UNCHANGED <<remote, pure>>

\* handle_command: jump / j <number>.
CmdJump(line) ==
    /\ Head(line) \in {"jump", "j"}
    /\ Len(line) = 2 /\ ParseInt(line[2]) >= 0
    /\ nextFile' = ParseInt(line[2])
    /\ stale' = {}
    /\ pc' = "poll"
    /\ Done("jump", "none")
    /\ UNCHANGED <<session, bp_command_indices, files, remote, pure,
                   watched_files, fresh>>

\* handle_command: jump / j with anything but one number: int(args) raises
\* ValueError, which neither handle_command nor main catches.
CmdJumpRaises(line) ==
    /\ Head(line) \in {"jump", "j"}
    /\ ~(Len(line) = 2 /\ ParseInt(line[2]) >= 0)
    /\ pc' = "crashed"
    /\ Done("jump", "ValueError")
    /\ UNCHANGED <<session, indices, files, remote, pure, watched_files,
                   ghost>>

\* handle_command: watch <path> -> file_watcher.start_watching (with the
\* watchdog package installed): a path that exists and is not watched yet
\* gets an observer.
CmdWatch(line) ==
    /\ Head(line) = "watch"
    /\ Len(line) = 2
    /\ \E path_exists \in BOOLEAN :
         /\ watched_files' = IF path_exists THEN watched_files \cup {line[2]}
                             ELSE watched_files
         /\ Done("watch", IF ~path_exists THEN "File does not exist"
                          ELSE IF line[2] \in watched_files
                               THEN "Already watching"
                          ELSE "Now watching")
    /\ pc' = "poll"
    /\ UNCHANGED <<session, indices, files, remote, pure, ghost>>

\* handle_command: unwatch <path> -> file_watcher.stop_watching.
CmdUnwatch(line) ==
    /\ Head(line) = "unwatch"
    /\ Len(line) = 2
    /\ watched_files' = watched_files \ {line[2]}
    /\ Done("unwatch", IF line[2] \in watched_files THEN "Stopped watching"
                       ELSE "Not watching")
    /\ pc' = "poll"
    /\ UNCHANGED <<session, indices, files, remote, pure, ghost>>

\* handle_command: help / h, watching and info / i print and change nothing
\* of the session or the transport.
CmdPrint(line) ==
    /\ Head(line) \in {"help", "h", "watching", "info", "i"}
    /\ Head(line) \in {"info", "i"} /\ current_breakpoint # NoBreakpoint
         => ~Raises(bp_data_file[current_breakpoint[1]])
    /\ pc' = "poll"
    /\ Done(Command(Head(line)), "printed")
    /\ UNCHANGED <<session, indices, files, remote, pure, watched_files,
                   ghost>>

\* handle_command: enable / e, disable / d, b / break print the usage
\* without an argument and send their Lua command with one; the Lua command
\* is the same for a name and its short form.
CmdBreakpoint(line) ==
    /\ Head(line) \in {"enable", "e", "disable", "d", "b", "break"}
    /\ IF Len(line) = 1
       THEN /\ pc' = "poll"
            /\ Done(Command(Head(line)), "Usage")
            /\ UNCHANGED <<session, indices, files, remote, pure,
                           watched_files, ghost>>
       ELSE /\ SendDataToGame(<<Command(Head(line)), line[2]>>, "cmd")
            /\ UNCHANGED <<session, out_file, bp_out_file, bp_threads_file,
                           bp_data_file, remote, pure, watched_files, ghost>>

\* handle_command: file <path> -> send_file_to_game; a path that does not
\* exist (the empty one never does) is reported and nothing is sent.
CmdFile(line) ==
    /\ Head(line) = "file"
    /\ \E path_exists \in BOOLEAN :
         /\ Len(line) = 1 => ~path_exists
         /\ IF path_exists
            THEN /\ SendDataToGame(<<"file">>, "cmd")
                 /\ UNCHANGED <<session, out_file, bp_out_file,
                                bp_threads_file, bp_data_file, remote, pure,
                                watched_files, ghost>>
            ELSE /\ pc' = "poll"
                 /\ Done("file", "File does not exist")
                 /\ UNCHANGED <<session, indices, files, remote, pure,
                                watched_files, ghost>>

\* A line of a Lua file, word by word: a line that starts with `function`
\* matches \s*function\b, one that starts with `end` matches \s*end\b, and
\* a line in which <name> follows the word `function` matches
\* \bfunction\s+<name>\b. Anything else is a statement.
OpensFunction(line) == line[1] = "function"
ClosesBlock(line) == line[1] = "end"
Declares(line, func_name) ==
    \E k \in 1..(Len(line) - 1) : line[k] = "function" /\ line[k + 1] = func_name

\* The lines of the files bl is tried on.
LuaLines == {<<"function", "f">>, <<"end">>, <<"stmt">>}
LuaFiles == UNION {[1..n -> LuaLines] : n \in 1..MaxLuaLines}

\* The exception lines[i] raises beyond the end of the list.
IndexError == <<"IndexError">>

\* find_lua_function, the loop for the matching 'end' from line j on.
RECURSIVE MatchingEnd(_, _, _)
MatchingEnd(lines, j, depth) ==
    IF j > Len(lines) THEN 0
    ELSE IF OpensFunction(lines[j]) THEN MatchingEnd(lines, j + 1, depth + 1)
    ELSE IF ClosesBlock(lines[j])
         THEN IF depth - 1 = 0 THEN j
              ELSE MatchingEnd(lines, j + 1, depth - 1)
    ELSE MatchingEnd(lines, j + 1, depth)

\* find_lua_function(content, line_number=line_number): None, or the first
\* and the last line of the function (lines counted from 1); lines[i]
\* raises IndexError when line_number lies beyond the last line.
FindLuaFunction(lines, line_number) ==
    IF line_number <= 0 THEN None
    ELSE IF line_number > Len(lines) THEN IndexError
    ELSE LET heads == {i \in 1..line_number : OpensFunction(lines[i])}
         IN IF heads = {} THEN None
            ELSE LET func_line == CHOOSE i \in heads : \A k \in heads : k <= i
                     j == MatchingEnd(lines, func_line, 0)
                 IN IF j = 0 THEN None ELSE <<func_line, j>>

\* find_lua_function(content, func_name): the span from the first line that
\* declares func_name, or None.
FindLuaFunctionByName(lines, func_name) ==
    LET heads == {i \in 1..Len(lines) : Declares(lines[i], func_name)}
    IN IF heads = {} THEN None
       ELSE LET func_line == CHOOSE i \in heads : \A k \in heads : i <= k
                j == MatchingEnd(lines, func_line, 0)
            IN IF j = 0 THEN None ELSE <<func_line, j>>

\* inject_into_function with after_line: inject_str is inserted in front of
\* line after_line (counted from 0) of the function, at its end when it has
\* fewer lines.
InjectIntoFunction(lines, start, end, inject_str, after_line) ==
    LET func_lines == SubSeq(lines, start, end)
        at == IF after_line < Len(func_lines) THEN after_line
              ELSE Len(func_lines)
    IN SubSeq(lines, 1, start - 1)
         \o SubSeq(func_lines, 1, at) \o <<inject_str>>
         \o SubSeq(func_lines, at + 1, Len(func_lines))
         \o SubSeq(lines, end + 1, Len(lines))

\* inject_into_function without after_line: func_lines.insert(1, ...).
InjectAfterHeader(lines, start, end, inject_str) ==
    InjectIntoFunction(lines, start, end, inject_str, 1)

\* The line bl injects.
BreakpointCall == <<"Breakpoint">>

\* handle_command, bl, from find_lua_function on: what becomes of the
\* command for that file and line.
LocateForBl(lines, line_num) ==
    LET found == FindLuaFunction(lines, line_num)
    IN IF found = IndexError THEN "IndexError"
       ELSE IF found = None THEN "Could not find a function"
       ELSE LET relative_line == line_num - (found[1] - 1) - 1
                new_content == InjectIntoFunction(lines, found[1], found[2],
                                                  BreakpointCall,
                                                  relative_line)
            IN IF FindLuaFunction(new_content, line_num) = None
               THEN "Could not re-locate function"
               ELSE "send"

\* handle_command: bl <file> <line>.
CmdBl(line) ==
    /\ Head(line) = "bl"
    /\ \E path_exists \in BOOLEAN, lines \in LuaFiles :
         LET what == IF Len(line) < 3 THEN "Usage"
                     ELSE IF ParseInt(line[3]) < 0 THEN "Invalid line number"
                     ELSE IF ~path_exists THEN "File does not exist"
                     ELSE LocateForBl(lines, ParseInt(line[3]))
         IN IF what = "send"
            THEN /\ SendDataToGame(<<"bl", line[2], line[3]>>, "cmd")
                 /\ UNCHANGED <<session, out_file, bp_out_file,
                                bp_threads_file, bp_data_file, remote, pure,
                                watched_files, ghost>>
            ELSE /\ pc' = IF what = "IndexError" THEN "crashed" ELSE "poll"
                 /\ Done("bl", what)
                 /\ UNCHANGED <<session, indices, files, remote, pure,
                                watched_files, ghost>>

\* A list that asks the remote for the threads.
CmdListSends(line) ==
    /\ Head(line) \in {"list", "l"}
    /\ SendDataToGame(<<"list">>, "list")
    /\ UNCHANGED <<session, out_file, bp_out_file, bp_threads_file,
                   bp_data_file, remote, pure, watched_files, ghost>>

\* handle_command: list / l prints the listed threads.
CmdList(line) ==
    /\ Head(line) \in {"list", "l"}
    /\ ~PollRaises
    /\ pc' = "poll"
    /\ Done("list", "listed")
    /\ UNCHANGED <<session, indices, files, remote, pure, watched_files,
                   ghost>>

\* handle_thread_command: is new_thread_id listed in bp_threads.txt?
ThreadListed(new_thread_id) ==
    LET threads_str == ParseBpThreadsFile(bp_threads_file)
    IN \E k \in 1..Len(threads_str) : threads_str[k] = new_thread_id

\* handle_command: thread / t <id>.
CmdThread(line) ==
    /\ Head(line) \in {"thread", "t"}
    /\ Len(line) = 2
    /\ ~Raises(bp_threads_file)
    /\ ThreadListed(line[2]) => ~Raises(bp_data_file[line[2]])
    /\ SetSession(HandleThreadCommand(Session, line[2]))
    /\ pc' = "poll"
    /\ Done("thread", IF ThreadListed(line[2]) THEN "Switched to thread"
                      ELSE "not found in breakpoint")
    /\ UNCHANGED <<indices, files, remote, pure, watched_files, ghost>>

\* handle_command: continue / c in breakpoint mode sends "continue";
\* handle_continue_command goes on in AfterSend.
CmdContinue(line) ==
    /\ Head(line) \in {"continue", "c"}
    /\ current_breakpoint # NoBreakpoint
    /\ SendDataToGame(<<"continue">>, "continue")
    /\ UNCHANGED <<session, out_file, bp_out_file, bp_threads_file,
                   bp_data_file, remote, pure, watched_files, ghost>>

\* handle_command: continue / c outside a breakpoint context.
CmdContinueNoBp(line) ==
    /\ Head(line) \in {"continue", "c"}
    /\ current_breakpoint = NoBreakpoint
    /\ pc' = "poll"
    /\ NoCall
    /\ UNCHANGED <<session, indices, files, remote, pure, watched_files,
                   ghost>>

Recognized ==
    {"quit", "q", "exit", "help", "h", "restart", "jump", "j", "watch",
     "unwatch", "watching", "file", "list", "l", "thread", "t", "info", "i",
     "continue", "c", "enable", "e", "disable", "d", "b", "break", "bl"}

\* handle_command: any other line is sent as it is.
CmdLua(line) ==
    /\ Head(line) \notin Recognized
    /\ SendDataToGame(line, "cmd")
    /\ UNCHANGED <<session, out_file, bp_out_file, bp_threads_file,
                   bp_data_file, remote, pure, watched_files, ghost>>

\* handle_command(cmd).
HandleCommand(line) ==
    \/ CmdQuit(line)
    \/ CmdRestart(line)
    \/ CmdJump(line)
    \/ CmdJumpRaises(line)
    \/ CmdWatch(line)
    \/ CmdUnwatch(line)
    \/ CmdPrint(line)
    \/ CmdBreakpoint(line)
    \/ CmdFile(line)
    \/ CmdBl(line)
    \/ CmdList(line)
    \/ CmdThread(line)
    \/ CmdContinue(line)
    \/ CmdContinueNoBp(line)
    \/ CmdLua(line)

\* main, third step: file_change_queue is empty; one console line is put on
\* stdin_queue and taken from it in the same cycle, and is dispatched
\* through handle_command.
Dispatch(lines) ==
    /\ pc = "queues"
    /\ file_change_queue = <<>>
    /\ UNCHANGED queues
    /\ \E line \in lines : HandleCommand(line)

\* main, third step: file_change_queue is empty and the line at the head of
\* stdin_queue is taken and dispatched through handle_command.
DispatchQueued ==
    /\ pc = "queues"
    /\ file_change_queue = <<>>
    /\ stdin_queue # <<>>
    /\ stdin_queue' = Tail(stdin_queue)
    /\ file_change_queue' = file_change_queue
    /\ HandleCommand(Head(stdin_queue))

\* stdin_reader_thread_func: the line read by input() is put on stdin_queue.
StdinReader(line) ==
    /\ pc \notin {"exit", "crashed"}
    /\ Len(stdin_queue) < MaxQueue
    /\ stdin_queue' = Append(stdin_queue, line)
    /\ UNCHANGED <<pc, caller, req, ret, outcome, written, at_call, session,
                   indices, files, remote, ghost, pure, file_change_queue,
                   watched_files>>

\* A callback that sends the file itself, from the observer's thread.
OnModifiedSends(filepath) ==
    /\ pc = "queues"
    /\ filepath \in watched_files
    /\ Len(file_change_queue) < MaxQueue
    /\ file_change_queue' = Append(file_change_queue, filepath)
    /\ stdin_queue' = stdin_queue
    /\ HandleFileChangeEvent(TRUE)

\* FileChangeHandler.on_modified: the observer of a watched file puts the
\* file's path on file_change_queue.
OnModified(filepath) ==
    /\ pc \notin {"exit", "crashed"}
    /\ filepath \in watched_files
    /\ Len(file_change_queue) < MaxQueue
    /\ file_change_queue' = Append(file_change_queue, filepath)
    /\ UNCHANGED <<pc, caller, req, ret, outcome, written, at_call, session,
                   indices, files, remote, ghost, pure, stdin_queue,
                   watched_files>>

\* signal_handler: clear_state() stops the reader and the watchers and
\* removes the files, sys.exit(0) ends the program.
SignalHandler ==
    /\ pc \notin {"exit", "crashed"}
    /\ watched_files' = {}
    /\ RemoveAllFiles
    /\ stale' = {}
    /\ pc' = "exit"
    /\ caller' = "signal"
    /\ UNCHANGED <<req, ret, outcome, written, at_call, session, indices,
                   remote, fresh, pure, queues>>

\* --------------------------------------------------------- remote runtime
\* The tag the remote writes in front of a result.
RemoteTag(thread_id, cmd_index) ==
    IF thread_id # "" THEN <<thread_id, ":", Str(cmd_index)>>
    ELSE <<Str(cmd_index)>>

\* bytes joined by the field separator.
RECURSIVE JoinSep(_)
JoinSep(fields) ==
    IF fields = <<>> THEN <<>>
    ELSE IF Len(fields) = 1 THEN <<fields[1]>>
    ELSE <<fields[1], FIELD_SEP>> \o JoinSep(Tail(fields))

Results == {<<>>, <<"1000">>}

\* The remote halts a running thread: it writes the record of the halt and
\* lists the thread in bp_threads.txt.
RemoteHalt(t) ==
    /\ pc # "exit"
    /\ halts < MaxHalts
    /\ LET listed == ParseBpThreadsFile(bp_threads_file)
       IN /\ \A k \in 1..Len(listed) : listed[k] # t
          /\ bp_threads_file' = File(JoinSep(Append(listed, t)))
    /\ halts' = halts + 1
    /\ bp_data_file' = [bp_data_file EXCEPT ![t] =
         File(JoinSep(<<"bp_id", Str(halts + 1), "gold", "1000">>))]
    /\ fresh' = [fresh EXCEPT ![t] = TRUE]
    /\ UNCHANGED <<pc, caller, req, ret, outcome, written, at_call, session,
                   indices, in_files, out_file, bp_out_file, stale, pure,
                   watched_files, queues>>

\* The remote processes one request file and writes the tagged response; a
\* breakpoint-channel request is served by the halted thread it names, and
\* "continue" resumes that thread.
RemoteRespond(f, result) ==
    /\ f \in in_files
    /\ LET listed == ParseBpThreadsFile(bp_threads_file)
           payload == RemoteTag(f.thread_id, f.cmd_index)
                        \o <<FIELD_SEP>> \o result
           response == IF f.abandoned
                       THEN LateFile(payload, [thread_id |-> f.thread_id,
                                               cmd_index |-> f.cmd_index])
                       ELSE File(payload)
       IN IF f.thread_id = ""
          THEN /\ out_file' = response
               /\ UNCHANGED <<bp_out_file, bp_threads_file, bp_data_file>>
          ELSE /\ \E k \in 1..Len(listed) : listed[k] = f.thread_id
               /\ bp_out_file' = response
               /\ out_file' = out_file
               /\ IF f.data = <<"continue">>
                  THEN /\ bp_threads_file' =
                            File(JoinSep(SelectSeq(listed,
                                   LAMBDA x : x # f.thread_id)))
                       /\ bp_data_file' =
                            [bp_data_file EXCEPT ![f.thread_id] = NoFile]
                  ELSE UNCHANGED <<bp_threads_file, bp_data_file>>
    /\ in_files' = in_files \ {f}
    /\ stale' = stale \cap Around(in_files', out_file', bp_out_file')
    /\ UNCHANGED <<pc, caller, req, ret, outcome, written, at_call, session,
                   indices, remote, pure, watched_files, queues, fresh>>

\* The remote is caught in the middle of writing the response to f: the
\* response file exists and its wrapper is not whole.  RemoteRespond
\* completes the write.
RemoteTearResponse(f) ==
    /\ f \in in_files
    /\ ~OutFile(f.thread_id).torn
    /\ IF f.thread_id = ""
       THEN out_file' = TornFile /\ bp_out_file' = bp_out_file
       ELSE bp_out_file' = TornFile /\ out_file' = out_file
    /\ stale' = stale \cap Around(in_files, out_file', bp_out_file')
    /\ UNCHANGED <<pc, caller, req, ret, outcome, written, at_call, session,
                   indices, in_files, bp_threads_file, bp_data_file, remote,
                   pure, watched_files, queues, fresh>>

\* The record of the halt the remote has announced last.
Record(n) == JoinSep(<<"bp_id", Str(n), "gold", "1000">>)

\* What bp_data_<t>.txt can hold while the remote is writing the record:
\* a wrapper that is not whole, or a whole wrapper around the first chunks
\* of the record.
Unfinished(n) ==
    {TornFile, File(<<"bp_id">>), File(JoinSep(<<"bp_id", Str(n), "gold">>))}

\* The remote halts a thread and lists it while the record is still being
\* written.
RemoteHaltUnfinished(t) ==
    /\ pc # "exit"
    /\ halts < MaxHalts
    /\ LET listed == ParseBpThreadsFile(bp_threads_file)
       IN /\ \A k \in 1..Len(listed) : listed[k] # t
          /\ bp_threads_file' = File(JoinSep(Append(listed, t)))
    /\ halts' = halts + 1
    /\ \E f \in Unfinished(halts + 1) :
         bp_data_file' = [bp_data_file EXCEPT ![t] = f]
    /\ fresh' = [fresh EXCEPT ![t] = TRUE]
    /\ UNCHANGED <<pc, caller, req, ret, outcome, written, at_call, session,
                   indices, in_files, out_file, bp_out_file, stale, pure,
                   watched_files, queues>>

\* The remote finishes the record of the last halt.
RemoteFinishRecord(t) ==
    /\ bp_data_file[t] \in Unfinished(halts)
    /\ bp_data_file' = [bp_data_file EXCEPT ![t] = File(Record(halts))]
    /\ UNCHANGED <<pc, caller, req, ret, outcome, written, at_call, session,
                   indices, in_files, out_file, bp_out_file, bp_threads_file,
                   remote, pure, watched_files, queues, ghost>>

\* ------------------------------------------------------------ file codec
\* The files byte by byte.  A byte string is a sequence of tokens: the bytes
\* the patterns are sensitive to are tokens of their own, a run of other
\* bytes of the fixed texts is one token, and "x" is an ordinary byte.
CALL_PRELOAD == "call Preload( \""
PRELOAD_START == "call PreloadStart()"
PRELOAD_END == "call PreloadEnd("

LINE_PREFIX == <<"\n\t", CALL_PRELOAD, "]", "]", "i", "(", "[", "[">>
LINE_POSTFIX == <<"]", "]", ")", "-", "-", "[", "[", "\"", " ", ")">>

FILE_PREFIX ==
    <<"function PreloadFiles takes nothing returns nothing\n\n\t",
      PRELOAD_START, "\n\t", CALL_PRELOAD, "\"", ")",
      "\nendfunction\n//!beginusercode\nlocal p={} local i=function(s) table.insert(p,s) end",
      "-", "-", "[", "[", "\"", " ", ")", "\n\t">>

FILE_POSTFIX ==
    <<"\n\t", CALL_PRELOAD, "]", "]",
      "BlzSetAbilityTooltip(1095656547, table.concat(p), 0)\n//!endusercode\nfunction a takes nothing returns nothing\n//",
      "\"", " ", ")", "\n\t", PRELOAD_END, " 0.1 )\n\nendfunction\n\n">>

\* REGEX_PATTERN, READ_REGEX_PATTERN and the pattern of
\* parse_nonloadable_file: the literal before the group, the literal after
\* it, and the least length of the group (.*? or .+?).
REGEX_PATTERN ==
    [open |-> <<CALL_PRELOAD, "]", "]", "i", "(", "[", "[">>,
     close |-> LINE_POSTFIX, least |-> 0]
READ_REGEX_PATTERN ==
    [open |-> <<CALL_PRELOAD>>, close |-> <<"\"", " ", ")">>, least |-> 0]
NONLOADABLE_PATTERN ==
    [open |-> <<CALL_PRELOAD>>, close |-> <<"\"", " ", ")">>, least |-> 1]

\* create_file splits the content into chunks of this many bytes.
ChunkSize == 255

\* No file of that name.
Absent == [exists |-> FALSE, data |-> <<>>]
Stored(data) == [exists |-> TRUE, data |-> data]

\* The first position from i on where the literal lit stands in data, 0 when
\* there is none.
Find(lit, data, i) ==
    LET at == {j \in i..(Len(data) - Len(lit) + 1) :
                 data[j] = lit[1] /\ SubSeq(data, j, j + Len(lit) - 1) = lit}
    IN IF at = {} THEN 0 ELSE CHOOSE j \in at : \A k \in at : j <= k

\* re.findall(pattern, data, flags=re.DOTALL) from position i on: the groups
\* of the successive non-overlapping matches, each group as short as it can
\* be.
RECURSIVE FindAll(_, _, _)
FindAll(pattern, data, i) ==
    LET j == Find(pattern.open, data, i)
        g == j + Len(pattern.open)
        k == Find(pattern.close, data, g + pattern.least)
    IN IF j = 0 \/ k = 0 THEN <<>>
       ELSE <<SubSeq(data, g, k - 1)>>
              \o FindAll(pattern, data, k + Len(pattern.close))

\* b''.join(matches)
RECURSIVE JoinBytes(_)
JoinBytes(matches) ==
    IF matches = <<>> THEN <<>>
    ELSE Head(matches) \o JoinBytes(Tail(matches))

\* load_file: None for an absent file, the joined groups otherwise.
LoadFile(f) ==
    IF ~f.exists THEN None
    ELSE LET matches == FindAll(REGEX_PATTERN, f.data, 1)
         IN IF matches # <<>> THEN JoinBytes(matches)
            ELSE LET simple == FindAll(READ_REGEX_PATTERN, f.data, 1)
                 IN IF simple # <<>> THEN JoinBytes(simple) ELSE <<>>

\* The loop of create_file: every chunk between LINE_PREFIX and LINE_POSTFIX.
RECURSIVE Chunks(_, _)
Chunks(content_bytes, i) ==
    IF i > Len(content_bytes) THEN <<>>
    ELSE LET last == IF i + ChunkSize - 1 < Len(content_bytes)
                     THEN i + ChunkSize - 1 ELSE Len(content_bytes)
         IN LINE_PREFIX \o SubSeq(content_bytes, i, last) \o LINE_POSTFIX
              \o Chunks(content_bytes, i + ChunkSize)

\* create_file: the bytes it writes; the assert fails on an empty content.
CreateFileData(content_bytes) ==
    IF Len(content_bytes) = 0 THEN AssertionError
    ELSE FILE_PREFIX \o Chunks(content_bytes, 1) \o FILE_POSTFIX

\* parse_nonloadable_file, byte by byte: None for an absent file and for a
\* wrapper without a Preload call; the assert fails on anything else that
\* holds no Preload call.
ParseNonloadable(f) ==
    IF ~f.exists THEN None
    ELSE LET matches == FindAll(NONLOADABLE_PATTERN, f.data, 1)
         IN IF matches # <<>> THEN JoinBytes(matches)
            ELSE IF /\ \E i \in 1..Len(f.data) : f.data[i] = PRELOAD_START
                    /\ \E i \in 1..Len(f.data) : f.data[i] = PRELOAD_END
                 THEN None
                 ELSE AssertionError

\* The wrapper FileIO.Save(..., isLoadable=False) leaves, as the docstring of
\* parse_nonloadable_file shows it: one Preload call for each chunk, none
\* when the data is empty.
RECURSIVE PreloadCalls(_)
PreloadCalls(chunks) ==
    IF chunks = <<>> THEN <<>>
    ELSE <<"\n\t", CALL_PRELOAD>> \o Head(chunks) \o <<"\"", " ", ")">>
           \o PreloadCalls(Tail(chunks))

NonloadableWrapper(chunks) ==
    <<"function PreloadFiles takes nothing returns nothing\n\n\t",
      PRELOAD_START>>
      \o PreloadCalls(chunks)
      \o <<"\n\t", PRELOAD_END, " 0.0 )\n\nendfunction\n\n">>

\* n ordinary bytes.
X(n) == [k \in 1..n |-> "x"]

\* The contents given to create_file: the lengths around the chunk
\* boundaries, and contents in which the bytes of LINE_POSTFIX occur.
Lengths ==
    {0, 1, 2, 3} \cup {k * ChunkSize + d : k \in 1..MaxChunks, d \in {-1, 0, 1}}
Contents ==
    {X(n) : n \in Lengths}
      \cup {X(a) \o LINE_POSTFIX \o X(b) :
              a \in {0, 1, ChunkSize - 5, ChunkSize}, b \in {0, 1, 2}}

\* The data the game saves without the loadable wrapper.
Saved == {<<>>, <<<<>>>>, <<X(1)>>, <<X(2)>>, <<X(2), X(1)>>}

\* create_file(filename, c)
CodecCreateFile(c) ==
    /\ op' = "create_file"
    /\ IF CreateFileData(c) = AssertionError
       THEN /\ returned' = AssertionError
            /\ UNCHANGED <<disk, source>>
       ELSE /\ returned' = None
            /\ disk' = Stored(CreateFileData(c))
            /\ source' = c
    /\ UNCHANGED <<system, located>>

\* load_file(filename)
CodecLoadFile ==
    /\ op' = "load_file"
    /\ returned' = LoadFile(disk)
    /\ UNCHANGED <<disk, source, system, located>>

\* parse_nonloadable_file(filename)
CodecParseNonloadable ==
    /\ op' = "parse_nonloadable_file"
    /\ returned' = ParseNonloadable(disk)
    /\ UNCHANGED <<disk, source, system, located>>

\* The game saves chunks under that name.
CodecSave(chunks) ==
    /\ op' = "save"
    /\ disk' = Stored(NonloadableWrapper(chunks))
    /\ source' = None
    /\ returned' = None
    /\ UNCHANGED <<system, located>>

\* os.unlink(filename)
CodecUnlink ==
    /\ disk.exists
    /\ op' = "unlink"
    /\ disk' = Absent
    /\ source' = None
    /\ returned' = None
    /\ UNCHANGED <<system, located>>

\* ---------------------------------------------------------------- locator
\* The lines of the sources the locator is run on: global functions, a
\* local function, block ends and statements ...
SourceLines ==
    {<<"function", "outer">>, <<"function", "inner">>,
     <<"local", "function", "inner">>, <<"end">>, <<"stmt">>}

\* ... in which every function has its end: the nesting depth after the
\* first j lines, -1 once an end had no function to close.
RECURSIVE Nesting(_, _)
Nesting(lines, j) ==
    IF j = 0 THEN 0
    ELSE LET before == Nesting(lines, j - 1)
         IN IF before < 0 THEN -1
            ELSE IF \E k \in 1..Len(lines[j]) : lines[j][k] = "function"
                 THEN before + 1
            ELSE IF ClosesBlock(lines[j]) THEN before - 1
            ELSE before
Sources ==
    {lines \in UNION {[1..n -> SourceLines] : n \in 1..MaxSourceLines} :
       Nesting(lines, Len(lines)) = 0}

\* Sources with blocks that are not named functions: an `if ... then`
\* line, closed by its own end, and a function without a name that opens
\* in the middle of a line; every block has its end.
BlockLines ==
    {<<"function", "outer">>, <<"if", "then">>, <<"local", "cb", "function">>,
     <<"end">>, <<"stmt">>}
OpensBlock(line) ==
    line[1] = "if" \/ \E k \in 1..Len(line) : line[k] = "function"
RECURSIVE BlockNesting(_, _)
BlockNesting(lines, j) ==
    IF j = 0 THEN 0
    ELSE LET before == BlockNesting(lines, j - 1)
         IN IF before < 0 THEN -1
            ELSE IF OpensBlock(lines[j]) THEN before + 1
            ELSE IF ClosesBlock(lines[j]) THEN before - 1
            ELSE before
BlockSources ==
    {lines \in UNION {[1..n -> BlockLines] : n \in 1..MaxSourceLines} :
       BlockNesting(lines, Len(lines)) = 0}

\* find_lua_function(content, func_name=func_name)
LocateByName(lines, func_name) ==
    /\ located' = [op |-> "find", lines |-> lines, func_name |-> func_name,
                   line_number |-> 0,
                   span |-> FindLuaFunctionByName(lines, func_name),
                   after_line |-> 0, new_content |-> <<>>, respan |-> None]
    /\ UNCHANGED <<system, codec>>

\* modify_function(lua_files, func_name, inject_str=...): the function is
\* located by its name and the line is injected after its header; the
\* function is then located again in the new content.
ModifyFunction(lines, func_name) ==
    /\ FindLuaFunctionByName(lines, func_name) # None
    /\ LET found == FindLuaFunctionByName(lines, func_name)
           new_content == InjectAfterHeader(lines, found[1], found[2],
                                            BreakpointCall)
       IN located' = [op |-> "modify", lines |-> lines,
                      func_name |-> func_name, line_number |-> 0,
                      span |-> found, after_line |-> 1,
                      new_content |-> new_content,
                      respan |-> FindLuaFunctionByName(new_content, func_name)]
    /\ UNCHANGED <<system, codec>>

\* handle_command, bl <file>:<line_num>, on a file that has the line: the
\* function is located by the line, the call is injected after_line =
\* relative_line lines into it and the function is located again by the
\* same line number.
BreakAtLine(lines, line_num) ==
    /\ line_num \in 1..Len(lines)
    /\ FindLuaFunction(lines, line_num) # None
    /\ LET found == FindLuaFunction(lines, line_num)
           relative_line == line_num - (found[1] - 1) - 1
           new_content == InjectIntoFunction(lines, found[1], found[2],
                                             BreakpointCall, relative_line)
       IN located' = [op |-> "bl", lines |-> lines, func_name |-> "",
                      line_number |-> line_num, span |-> found,
                      after_line |-> relative_line,
                      new_content |-> new_content,
                      respan |-> FindLuaFunction(new_content, line_num)]
    /\ UNCHANGED <<system, codec>>

\* ---------------------------------------------------------- specification
Init ==
    /\ pc = "poll"
    /\ caller = "none"
    /\ req = NoReq
    /\ ret = None
    /\ outcome = "none"
    /\ written = 0
    /\ at_call = NoSnapshot
    /\ current_breakpoint = NoBreakpoint
    /\ pending_breakpoints = <<>>
    /\ thread_state_is_bp = [t \in Threads |-> FALSE]
    /\ bp_command_indices = [t \in Threads |-> 0]
    /\ nextFile = 0
    /\ in_files = {}
    /\ out_file = NoFile
    /\ bp_out_file = NoFile
    /\ bp_threads_file = NoFile
    /\ bp_data_file = [t \in Threads |-> NoFile]
    /\ halts = 0
    /\ fresh = [t \in Threads |-> FALSE]
    /\ stale = {}
    /\ disk = Absent
    /\ source = None
    /\ returned = None
    /\ op = "none"
    /\ located = NotLocated
    /\ stdin_queue = <<>>
    /\ file_change_queue = <<>>
    /\ watched_files = {}

\* The session state machine under the session commands alone.
NextSession ==
    \/ PollBreakpoints
    \/ QueuesEmpty
    \/ Dispatch(SessionLines)
    \/ WaitMatch
    \/ WaitTimeout
    \/ \E t \in Threads : RemoteHalt(t)
    \/ \E f \in in_files : RemoteRespond(f, <<"1000">>)

SpecSession == Init /\ [][NextSession]_vars

\* The transport: requests on the default channel and on the breakpoint
\* channels of two threads, file-change events, restart and quit, empty and
\* non-empty results.
TransportThreads == {"T1", "T2"}

NextTransport ==
    \/ PollBreakpoints
    \/ FileChangeEvent
    \/ QueuesEmpty
    \/ Dispatch(TransportLines)
    \/ WaitMatch
    \/ WaitTimeout
    \/ \E t \in TransportThreads : RemoteHalt(t)
    \/ \E f \in in_files, result \in Results : RemoteRespond(f, result)

SpecTransport == Init /\ [][NextTransport]_vars

\* The correlation of requests and responses: console requests on the
\* default channel and on the breakpoint channels, the index set by jump,
\* every response carrying the same result.
NextCorrelation ==
    \/ PollBreakpoints
    \/ QueuesEmpty
    \/ Dispatch(CorrelationLines)
    \/ WaitMatch
    \/ WaitTimeout
    \/ \E t \in TransportThreads : RemoteHalt(t)
    \/ \E f \in in_files : RemoteRespond(f, <<"1000">>)

SpecCorrelation == Init /\ [][NextCorrelation]_vars

\* The command router: the structural commands, restart and watch next to
\* a line that is sent, before and after a thread has halted.
RouterLines ==
    {<<"list">>, <<"thread", "T2">>, <<"info">>, <<"help">>, <<"watching">>,
     <<"watch", "a.lua">>, <<"restart">>, <<"return", "gold">>}

NextRouter ==
    \/ PollBreakpoints
    \/ QueuesEmpty
    \/ Dispatch(RouterLines)
    \/ WaitMatch
    \/ WaitTimeout
    \/ RemoteHalt("T2")
    \/ \E f \in in_files : RemoteRespond(f, <<"1000">>)

SpecRouter == Init /\ [][NextRouter]_vars

\* The event loop with its producers: the stdin reader and the observer of
\* a watched file fill the queues while the loop polls, drains and sends,
\* one thread halts, and a signal may end the program.
LoopLines == {<<"return", "gold">>, <<"watch", "a.lua">>}

NextLoop ==
    \/ PollBreakpoints
    \/ DrainFileChange
    \/ DispatchQueued
    \/ QueuesEmpty
    \/ WaitMatch
    \/ WaitTimeout
    \/ \E line \in LoopLines : StdinReader(line)
    \/ OnModified("a.lua")
    \/ SignalHandler
    \/ RemoteHalt("T2")
    \/ \E f \in in_files : RemoteRespond(f, <<"1000">>)

SpecLoop == Init /\ [][NextLoop]_vars

\* Files read while the remote is writing them: one console request on
\* the default channel, one thread halting.
TornLines == {<<"return", "gold">>}

NextTorn ==
    \/ PollBreakpoints
    \/ PollRaise
    \/ QueuesEmpty
    \/ Dispatch(TornLines)
    \/ WaitMatch
    \/ WaitTimeout
    \/ WaitRaise
    \/ RemoteHaltUnfinished("T1")
    \/ RemoteFinishRecord("T1")
    \/ \E f \in in_files : RemoteTearResponse(f)
    \/ \E f \in in_files : RemoteRespond(f, <<"1000">>)

SpecTorn == Init /\ [][NextTorn]_vars

\* The console: every kind of line, well-formed and not, on the default
\* channel.
ConsoleLines ==
    {<<"jump", "0">>, <<"jump", "x">>, <<"jump">>, <<"help">>, <<"enable">>,
     <<"enable", "bp">>, <<"file">>, <<"file", "f.lua">>, <<"bl">>,
     <<"bl", "f.lua", "x">>, <<"return", "gold">>, <<"thread", "T9">>}
      \cup {<<"bl", "f.lua", Str(n)>> : n \in 0..(MaxLuaLines + 1)}

NextConsole ==
    \/ PollBreakpoints
    \/ QueuesEmpty
    \/ Dispatch(ConsoleLines)
    \/ WaitMatch
    \/ WaitTimeout
    \/ \E f \in in_files, result \in Results : RemoteRespond(f, result)

SpecConsole == Init /\ [][NextConsole]_vars

\* The codec alone: files are written, saved, removed and decoded.
NextCodec ==
    \/ \E c \in Contents : CodecCreateFile(c)
    \/ CodecLoadFile
    \/ CodecParseNonloadable
    \/ \E chunks \in Saved : CodecSave(chunks)
    \/ CodecUnlink

SpecCodec == Init /\ [][NextCodec]_vars

\* The locator alone: functions are located by name, modified by name and
\* given line breakpoints.
NextLocator ==
    \/ \E lines \in Sources, func_name \in {"outer", "inner"} :
         LocateByName(lines, func_name)
    \/ \E lines \in Sources, func_name \in {"outer", "inner"} :
         ModifyFunction(lines, func_name)
    \/ \E lines \in Sources, line_num \in 1..MaxSourceLines :
         BreakAtLine(lines, line_num)

SpecLocator == Init /\ [][NextLocator]_vars

\* The short forms: every command that has one is entered by its name and
\* by its short form, and so is the line r, before and after T2 has halted.
AliasLines ==
    {<<"quit">>, <<"q">>, <<"exit">>, <<"help">>, <<"h">>, <<"restart">>,
     <<"r">>, <<"jump", "0">>, <<"j", "0">>, <<"list">>, <<"l">>,
     <<"thread", "T2">>, <<"t", "T2">>, <<"info">>, <<"i">>, <<"continue">>,
     <<"c">>, <<"enable", "bp">>, <<"e", "bp">>, <<"disable", "bp">>,
     <<"d", "bp">>, <<"break", "f">>, <<"b", "f">>}

NextAlias ==
    \/ PollBreakpoints
    \/ QueuesEmpty
    \/ Dispatch(AliasLines)
    \/ WaitMatch
    \/ WaitTimeout
    \/ RemoteHalt("T2")
    \/ \E f \in in_files : RemoteRespond(f, <<"1000">>)

SpecAlias == Init /\ [][NextAlias]_vars

\* The progress of the halts: two threads halt, the operator resumes the
\* current thread and switches to T2.  The event loop never stops: a cycle
\* polls, then goes through the queues, and the poll loop of
\* send_data_to_game ends by the match or by the timeout.
ProgressLines == {<<"continue">>, <<"thread", "T2">>}

NextProgress ==
    \/ PollBreakpoints
    \/ QueuesEmpty
    \/ Dispatch(ProgressLines)
    \/ WaitMatch
    \/ WaitTimeout
    \/ \E t \in TransportThreads : RemoteHalt(t)
    \/ \E f \in in_files : RemoteRespond(f, <<"1000">>)

SpecProgress ==
    /\ Init /\ [][NextProgress]_vars
    /\ WF_pc(pc = "poll" /\ pc' = "queues")
    /\ WF_pc(pc = "queues" /\ pc' \in {"poll", "wait"})
    /\ WF_pc(pc = "wait" /\ pc' = "poll")

\* The locator on sources with if blocks and functions without a name.
NextBlocks ==
    \/ \E lines \in BlockSources : LocateByName(lines, "outer")
    \/ \E lines \in BlockSources : ModifyFunction(lines, "outer")
    \/ \E lines \in BlockSources, line_num \in 1..MaxSourceLines :
         BreakAtLine(lines, line_num)

SpecBlocks == Init /\ [][NextBlocks]_vars

\* The console input: the stdin reader queues lines while the event loop
\* polls, drains and dispatches, a watched file changes, and T1 halts with
\* its record still being written.  The event loop never stops by itself:
\* a cycle polls, then goes through the queues, and the poll loop of
\* send_data_to_game ends by the match or by the timeout.
InputLines == {<<"return", "gold">>, <<"watch", "a.lua">>, <<"quit">>}

NextInput ==
    \/ PollBreakpoints
    \/ PollRaise
    \/ DrainFileChange
    \/ DispatchQueued
    \/ QueuesEmpty
    \/ WaitMatch
    \/ WaitTimeout
    \/ \E line \in InputLines : StdinReader(line)
    \/ OnModified("a.lua")
    \/ RemoteHaltUnfinished("T1")
    \/ RemoteFinishRecord("T1")
    \/ \E f \in in_files : RemoteRespond(f, <<"1000">>)

SpecInput ==
    /\ Init /\ [][NextInput]_vars
    /\ WF_pc(pc = "poll" /\ pc' \in {"queues", "crashed"})
    /\ WF_pc(pc = "queues" /\ pc' \in {"poll", "wait", "exit"})
    /\ WF_pc(pc = "wait" /\ pc' \in {"poll", "queues"})

\* =================================================================== claims
\* Thread ids held by current_breakpoint / pending_breakpoints / the flags.
CurrentThreads ==
    IF current_breakpoint = NoBreakpoint THEN {} ELSE {current_breakpoint[1]}
PendingThreads ==
    {pending_breakpoints[k][1] : k \in 1..Len(pending_breakpoints)}
HaltedThreads == {t \in Threads : thread_state_is_bp[t]}
\* current followed by the pending queue, as a sequence of thread ids.
HeldSeq ==
    (IF current_breakpoint = NoBreakpoint THEN <<>>
     ELSE <<current_breakpoint[1]>>)
      \o [k \in 1..Len(pending_breakpoints) |-> pending_breakpoints[k][1]]

\* Steps of the handlers the claims speak of.
PollStep == pc = "poll" /\ pc' = "queues"
ContinueReturns == pc = "wait" /\ caller = "continue" /\ pc' # "wait"
SendReturns == pc = "wait" /\ pc' # "wait"
\* The threads a poll step observes (flag false -> true).
Observed(t) == ~thread_state_is_bp[t] /\ thread_state_is_bp'[t]
\* bp_id the remote wrote in bp_data_<t>.txt ("bp_id" SEP <id> SEP ...).
BpIdInFile(t) == <<bp_data_file[t].payload[3]>>

IsPrefix(a, b) == Len(a) <= Len(b) /\ SubSeq(b, 1, Len(a)) = a

\* C1: in every reachable state the thread ids held in current_breakpoint
\* and pending_breakpoints are exactly the threads whose halted flag is true.
C1_HeldEqualsHalted == CurrentThreads \cup PendingThreads = HaltedThreads

\* C2: no thread id occurs twice across current_breakpoint and
\* pending_breakpoints; the current thread is never also queued.
C2_NoDuplicates ==
    \A i, j \in 1..Len(HeldSeq) : HeldSeq[i] = HeldSeq[j] => i = j

\* C3: current_breakpoint is non-null iff some thread is flagged halted, it
\* is never null while pending is non-empty, and it never names a thread
\* whose flag is false.
C3_CurrentIffHalted ==
    /\ (current_breakpoint # NoBreakpoint) <=> (HaltedThreads # {})
    /\ pending_breakpoints # <<>> => current_breakpoint # NoBreakpoint
    /\ CurrentThreads \subseteq HaltedThreads

\* C4: queued halts surface in observation order.  A poll appends the halts
\* it observes behind the entries already queued, in the order in which
\* bp_threads.txt lists them; a continue makes the head of pending current
\* and leaves the rest in place, or makes current null when nothing is
\* queued; no other step changes pending except restart, which empties it.
C4_FifoOrder ==
    [][/\ PollStep =>
            /\ IsPrefix(pending_breakpoints, pending_breakpoints')
            /\ LET listed == ParseBpThreadsFile(bp_threads_file)
                   pos(t) == CHOOSE k \in 1..Len(listed) : listed[k] = t
                   n      == Len(pending_breakpoints)
               IN \A i, j \in (n + 1)..Len(pending_breakpoints') :
                    i < j => pos(pending_breakpoints'[i][1])
                               < pos(pending_breakpoints'[j][1])
       /\ ContinueReturns =>
            IF pending_breakpoints # <<>>
            THEN /\ current_breakpoint' = Head(pending_breakpoints)
                 /\ pending_breakpoints' = Tail(pending_breakpoints)
            ELSE /\ current_breakpoint' = NoBreakpoint
                 /\ pending_breakpoints' = <<>>
       /\ ~PollStep /\ ~ContinueReturns =>
            pending_breakpoints' \in {pending_breakpoints, <<>>}
      ]_vars

\* C4 witness: T1 was current with two halts queued behind it, and the
\* continue on T1 has made the first of them current.
C4_Witness ==
    /\ outcome = "matched" /\ req.data = <<"continue">>
    /\ req.thread_id = "T1"
    /\ current_breakpoint # NoBreakpoint
    /\ current_breakpoint[1] # "T1"
    /\ Len(pending_breakpoints) = 1
    /\ pending_breakpoints[1][1] \notin {"T1", current_breakpoint[1]}
    /\ ParseInt(current_breakpoint[2].bp_id[1])
         < ParseInt(pending_breakpoints[1][2].bp_id[1])

\* C9: a poll that finds current null makes the first halt it observes
\* current, with the record its data file holds; every other observed halt
\* is appended to pending with the record its data file holds; a continue
\* then makes the head entry of pending current, record included.
C9_ObserveThenPromote ==
    [][/\ PollStep =>
            LET new == {t \in Threads : Observed(t)}
                n   == Len(pending_breakpoints)
            IN /\ current_breakpoint = NoBreakpoint /\ new # {} =>
                    /\ current_breakpoint' # NoBreakpoint
                    /\ current_breakpoint'[1] \in new
                    /\ current_breakpoint'[2].thread_id = current_breakpoint'[1]
                    /\ current_breakpoint'[2].bp_id
                         = BpIdInFile(current_breakpoint'[1])
               /\ current_breakpoint # NoBreakpoint =>
                    /\ current_breakpoint' = current_breakpoint
                    /\ Len(pending_breakpoints') = n + Cardinality(new)
               /\ IsPrefix(pending_breakpoints, pending_breakpoints')
               /\ \A k \in (n + 1)..Len(pending_breakpoints') :
                    /\ pending_breakpoints'[k][1] \in new
                    /\ pending_breakpoints'[k][2].thread_id
                         = pending_breakpoints'[k][1]
                    /\ pending_breakpoints'[k][2].bp_id
                         = BpIdInFile(pending_breakpoints'[k][1])
       /\ ContinueReturns /\ pending_breakpoints # <<>> =>
            current_breakpoint' = Head(pending_breakpoints)
      ]_vars

\* C9 witness: T1 became current when observed, T2 was queued with the
\* record of the second halt, and the continue on T1 has made T2 current
\* with that record.
C9_Witness ==
    /\ outcome = "matched" /\ req.data = <<"continue">>
    /\ req.thread_id = "T1"
    /\ current_breakpoint # NoBreakpoint
    /\ current_breakpoint[1] = "T2"
    /\ current_breakpoint[2].bp_id = <<"2">>
    /\ current_breakpoint[2].locals_values[<<"gold">>] = <<"1000">>
    /\ pending_breakpoints = <<>>

\* C10: each remote halt is observed at most once: a poll observes a thread
\* only when the remote has halted it since its last observation.
C10_ObservedOncePerHalt ==
    [][PollStep => \A t \in Threads : Observed(t) => fresh[t]]_vars

\* ------------------------------------------------------- transport claims
\* The correlation tag of a request: '<thread_id>:<index>' on a breakpoint
\* channel, '<index>' on the default channel.
RequestTag(r) ==
    IF r.thread_id # "" THEN <<r.thread_id, ":", Str(r.cmd_index)>>
    ELSE <<Str(r.cmd_index)>>
\* Tag and result of a response file: the bytes before and after the first
\* field separator.
FileTag(f) ==
    LET i == IndexOfSep(f.payload)
    IN IF i = 0 THEN f.payload ELSE SubSeq(f.payload, 1, i - 1)
FileResult(f) ==
    LET i == IndexOfSep(f.payload)
    IN IF i = 0 THEN <<>> ELSE SubSeq(f.payload, i + 1, Len(f.payload))
\* The next index of a channel.
ChannelIndex(thread_id) ==
    IF thread_id # "" THEN bp_command_indices[thread_id] ELSE nextFile
\* The indices of the channels other than thread_id equal the ones
\* recorded when the call was entered.
OthersAsAtCall(thread_id, bp, nf) ==
    /\ \A t \in Threads : t # thread_id => bp[t] = at_call.bp[t]
    /\ thread_id # "" => nf = at_call.nf
\* The steps in which send_data_to_game is entered and in which it returns.
SendStep == pc # "wait" /\ pc' = "wait"
MatchStep == pc = "wait" /\ outcome' = "matched"
TimeoutStep == pc = "wait" /\ outcome' = "timeout"

\* C5: send_data_to_game returns a result only when the tag of the response
\* file equals the tag of the outstanding request; with any other tag in
\* the file the call returns only by the timeout, without a result.
C5_ExactTagOnly ==
    [][SendReturns =>
         LET f == OutFile(req.thread_id)
         IN \/ /\ outcome' = "matched"
               /\ f.exists
               /\ FileTag(f) = RequestTag(req)
            \/ /\ outcome' = "timeout"
               /\ ret' = None
      ]_vars

\* C5 witness: the request T2:0 is outstanding while bp_out.txt carries the
\* response tagged T1:0.
C5_Witness ==
    /\ pc = "wait"
    /\ req.thread_id = "T2" /\ req.cmd_index = 0
    /\ bp_out_file.exists
    /\ FileTag(bp_out_file) = <<"T1", ":", "0">>

\* C6 as stated: a response written late for an abandoned request is never
\* returned as the result of a request.
C6_LateNeverReturned ==
    [][MatchStep => ~OutFile(req.thread_id).late]_vars

\* C6 amended: a request never carries the tag of a request abandoned since
\* the indices were last set by jump or restart, and a late response is
\* returned only to a request whose tag is not among those.
C6_LateOnlyAfterReset ==
    [][/\ SendStep => Tag(req') \notin stale
       /\ MatchStep /\ OutFile(req.thread_id).late => Tag(req) \notin stale
      ]_vars

\* C6 witness: request 0 of the default channel was abandoned, its late
\* response lies in out.txt, and a later request of that channel is
\* outstanding under another index.
C6_Witness ==
    /\ pc = "wait"
    /\ req.thread_id = "" /\ req.cmd_index = 1
    /\ out_file.exists /\ out_file.late
    /\ FileTag(out_file) = <<"0">>
    /\ <<"", 0>> \in stale

\* C7: on a match send_data_to_game returns exactly the result bytes of the
\* response, the channel's next index is the request's index plus one, and
\* every other channel's index is as it was when the call was entered.
C7_ReturnsResultAndAdvances ==
    [][MatchStep =>
         /\ ret' = FileResult(OutFile(req.thread_id))
         /\ ChannelIndex(req.thread_id)' = req.cmd_index + 1
         /\ OthersAsAtCall(req.thread_id, bp_command_indices', nextFile')
      ]_vars

\* C8: on a timeout send_data_to_game returns None, the request file was
\* written once and is not written again, and the channel's next index is
\* the request's index plus one, every other index being untouched.
C8_TimeoutAdvancesOnce ==
    [][TimeoutStep =>
         /\ ret' = None
         /\ written = 1 /\ written' = 1
         /\ {Tag(f) : f \in in_files'} = {Tag(f) : f \in in_files}
         /\ ChannelIndex(req.thread_id)' = req.cmd_index + 1
         /\ OthersAsAtCall(req.thread_id, bp_command_indices', nextFile')
      ]_vars

\* C8 witness: a request on a breakpoint channel has timed out after the
\* default channel had been used; the breakpoint channel has advanced by
\* one and the default channel is where it was.
C8_Witness ==
    /\ outcome = "timeout" /\ ret = None /\ written = 1
    /\ req.thread_id # ""
    /\ bp_command_indices[req.thread_id] = req.cmd_index + 1
    /\ at_call.nf = 1 /\ nextFile = 1

\* -------------------------------------------------- continue and thread
\* The step in which handle_command has run thread / t <id>.
ThreadStep == pc = "queues" /\ caller' = "thread"
\* The step of a restart: every file is gone and all state is reset.
RestartStep ==
    /\ pc = "queues" /\ pc' = "poll"
    /\ current_breakpoint' = NoBreakpoint /\ pending_breakpoints' = <<>>
    /\ thread_state_is_bp' = [t \in Threads |-> FALSE]
    /\ nextFile' = 0 /\ bp_command_indices' = [t \in Threads |-> 0]
    /\ in_files' = {} /\ ~bp_threads_file'.exists
\* The halted flag of t is cleared by the step.
Cleared(t) == thread_state_is_bp[t] /\ ~thread_state_is_bp'[t]

\* C11: a continue advances the local state machine (flag cleared, next
\* pending thread promoted) only when the resume request was confirmed by a
\* matching response.
C11_ResumeOnlyConfirmed ==
    [][ContinueReturns /\ session' # session => outcome' = "matched"]_vars

\* C12 as stated: a halted flag is cleared only by a continue issued while
\* its thread is current.
C12_ClearedOnlyByContinue ==
    [][\A t \in Threads :
         Cleared(t) => ContinueReturns /\ CurrentThreads = {t}
      ]_vars

\* C12 amended: a halted flag is cleared only by a continue issued while its
\* thread is current, or by restart, which clears every flag.
C12_ClearedByContinueOrRestart ==
    [][\A t \in Threads :
         Cleared(t) => \/ ContinueReturns /\ CurrentThreads = {t}
                       \/ RestartStep
      ]_vars

\* C12 witness: the continue on the current thread has cleared its flag and
\* the flag of another halted thread is still true.
C12_Witness ==
    /\ req.data = <<"continue">> /\ outcome \in {"matched", "timeout"}
    /\ ~thread_state_is_bp[req.thread_id]
    /\ \E t \in Threads : t # req.thread_id /\ thread_state_is_bp[t]

\* C13: thread <id> succeeds only for a thread whose halted flag is true;
\* otherwise it reports 'not found' and changes neither the session nor a
\* command index.
C13_ThreadOnlyHalted ==
    [][ThreadStep =>
         /\ outcome' = "Switched to thread" =>
              thread_state_is_bp[current_breakpoint'[1]]
         /\ outcome' = "not found in breakpoint" =>
              UNCHANGED <<session, indices>>
      ]_vars

\* C14: a successful thread <id> makes the thread current, removes it from
\* pending if it was queued, keeps the other entries in their order,
\* changes no flag and no index, and sends no request.
C14_SwitchFrame ==
    [][ThreadStep /\ outcome' = "Switched to thread" =>
         LET t == current_breakpoint'[1]
         IN /\ pending_breakpoints'
                 = SelectSeq(pending_breakpoints, LAMBDA e : e[1] # t)
            /\ UNCHANGED <<thread_state_is_bp, indices, in_files>>
            /\ pc' # "wait"
      ]_vars

\* ------------------------------------------------------------ codec claims
\* C15: for every byte string p, the empty one included, create_file writes
\* p and load_file of the file it wrote returns exactly p.
C15_RoundTrip ==
    /\ op = "create_file" => returned # AssertionError
    /\ op = "load_file" /\ source # None => returned = source

\* C16: for an existing well-formed file whose payload is empty, load_file
\* and parse_nonloadable_file return a value other than the None they return
\* for an absent file.
C16_AbsentIsNotEmpty ==
    /\ op \in {"load_file", "parse_nonloadable_file"}
    /\ disk = Stored(NonloadableWrapper(<<>>))
    => /\ returned # AssertionError
       /\ op = "load_file" => returned # LoadFile(Absent)
       /\ op = "parse_nonloadable_file" => returned # ParseNonloadable(Absent)

\* ------------------------------------------------- undecodable files
\* The record file of t exists and does not hold complete key/value pairs.
Incomplete(f) ==
    /\ f.exists
    /\ \/ f.torn
       \/ Len(SplitSep(f.payload)) % 2 = 1

\* C17: while send_data_to_game is polling, a response file that cannot be
\* decoded is taken as no payload: the poll does not raise, and the call
\* still ends by returning the matching response or by the timeout.
C17_UndecodableIsNoPayload ==
    [][pc = "wait" /\ Raises(OutFile(req.thread_id))
         => pc' \in {"wait", "poll", "queues"}]_vars

\* C18: a poll cycle that finds the record file of a listed, unflagged
\* thread incomplete does not observe the thread: its flag stays false, no
\* error ends the loop, and the record is read again on the next cycle.
C18_IncompleteRecordRetried ==
    [][pc = "poll" /\ pc' # "poll"
         => /\ pc' = "queues"
            /\ \A t \in Threads :
                 Incomplete(bp_data_file[t]) /\ ~thread_state_is_bp[t]
                   => ~thread_state_is_bp'[t]
      ]_vars

\* ------------------------------------------------------- console claims
\* C19: whatever line other than quit the operator enters, handle_command
\* returns normally and the event loop goes on to the next line.
C19_LoopContinues ==
    [][pc = "queues" => pc' \in {"queues", "wait", "poll", "exit"}]_vars

\* The messages of the not-found conditions of file and bl.
NotFoundMessages ==
    {"File does not exist", "Could not find a function",
     "Could not re-locate function"}

\* C20: a file or bl command that finds no file, or a bl command that
\* locates no function for the line, reports the error, writes no request
\* file and changes neither a command index nor the session state.
C20_NotFoundReported ==
    [][/\ pc = "queues"
       /\ caller' \in {"file", "bl"}
       /\ outcome' \notin {"Usage", "Invalid line number"}
       => /\ outcome' \in NotFoundMessages
          /\ pc' = "poll"
          /\ UNCHANGED <<in_files, indices, session>>
      ]_vars

\* ---------------------------------------------------- event loop claims
\* The threads bp_threads.txt lists, as a set.
ListedThreads ==
    {ParseBpThreadsFile(bp_threads_file)[k] :
       k \in 1..Len(ParseBpThreadsFile(bp_threads_file))}

\* C21: a cycle polls before it drains the queues and dispatches a console
\* line, hence a halt that is announced (listed in bp_threads.txt and not
\* observed yet) when a cycle starts is observed by that cycle's poll,
\* before the cycle's console line.
C21_AnnouncedHaltObserved ==
    [][PollStep
       => \A t \in Threads : fresh[t] /\ t \in ListedThreads => Observed(t)
      ]_vars

\* --------------------------------------------------- command indices
\* The step in which handle_command has run jump / j <number>.
JumpStep == pc = "queues" /\ caller' = "jump"
\* The next index of the channel of thread_id after the step.
IndexAfter(thread_id) ==
    IF thread_id # "" THEN bp_command_indices'[thread_id] ELSE nextFile'

\* C29 as stated: the global command index and every per-thread command
\* index start at 0 and never decrease.
C29_IndicesMonotonic ==
    /\ nextFile = 0 /\ \A t \in Threads : bp_command_indices[t] = 0
    /\ [][/\ nextFile' >= nextFile
          /\ \A t \in Threads : bp_command_indices'[t] >= bp_command_indices[t]
         ]_vars

\* C29 amended: the indices start at 0; the global index decreases only by
\* jump, which sets it to the operator's number, or by restart, and a
\* per-thread index only by restart; every request takes the next index of
\* its channel and advances that channel by one.
C29_IndicesDecreaseOnlyByReset ==
    /\ nextFile = 0 /\ \A t \in Threads : bp_command_indices[t] = 0
    /\ [][/\ nextFile' < nextFile => JumpStep \/ RestartStep
          /\ \A t \in Threads :
               bp_command_indices'[t] < bp_command_indices[t] => RestartStep
          /\ SendStep => /\ req'.cmd_index = ChannelIndex(req'.thread_id)
                         /\ IndexAfter(req'.thread_id) = req'.cmd_index + 1
         ]_vars

\* C29 witness: after a request on the default channel had been answered,
\* jump 0 has set the global index back to 0.
C29_Witness ==
    /\ caller = "jump" /\ nextFile = 0
    /\ out_file.exists /\ FileTag(out_file) = <<"0">>

\* ------------------------------------------------------ command router
\* The step in which handle_command sends a line it does not recognize.
LuaStep ==
    pc = "queues" /\ caller' = "cmd" /\ Head(req'.data) \notin Recognized

\* C27: a console line that matches no recognized command is sent as one
\* request carrying the line: on the breakpoint channel of the current
\* thread under that thread's index when current_breakpoint is set, on the
\* default channel under nextFile otherwise; the counters of the channels
\* not used are unchanged.
C27_UnrecognizedSentOnce ==
    [][LuaStep =>
         /\ written' = 1 /\ pc' = "wait"
         /\ {Tag(f) : f \in in_files'}
              = {Tag(f) : f \in in_files} \cup {Tag(req')}
         /\ \E f \in in_files' :
              Tag(f) = Tag(req') /\ f.data = req'.data /\ ~f.abandoned
         /\ IF current_breakpoint # NoBreakpoint
            THEN /\ req'.thread_id = current_breakpoint[1]
                 /\ req'.cmd_index = bp_command_indices[current_breakpoint[1]]
                 /\ nextFile' = nextFile
                 /\ \A t \in Threads \ {current_breakpoint[1]} :
                      bp_command_indices'[t] = bp_command_indices[t]
            ELSE /\ req'.thread_id = ""
                 /\ req'.cmd_index = nextFile
                 /\ bp_command_indices' = bp_command_indices
      ]_vars

\* C27 witness: with T2 current, the line `return gold` is outstanding as
\* request 0 of T2's channel, after the default channel had carried one
\* request.
C27_Witness ==
    /\ pc = "wait" /\ caller = "cmd"
    /\ req = [thread_id |-> "T2", cmd_index |-> 0,
              data |-> <<"return", "gold">>]
    /\ nextFile = 1 /\ at_call.nf = 1
    /\ \E f \in in_files : Tag(f) = <<"T2", 0>> /\ f.data = req.data

\* The step in which handle_command has run list, thread, info, help or
\* watching.
StructuralStep ==
    /\ pc = "queues"
    /\ caller' \in {"list", "thread", "info", "i", "help", "h", "watching"}

\* C28: list, thread, info, help and watching do not cross the transport:
\* the step writes no request file, advances no command index and does not
\* wait for a response, with and without a current breakpoint.
C28_StructuralStayLocal ==
    [][StructuralStep =>
         /\ in_files' = in_files /\ written' = 0
         /\ nextFile' = nextFile /\ bp_command_indices' = bp_command_indices
         /\ pc' # "wait"
         /\ out_file' = out_file /\ bp_out_file' = bp_out_file
      ]_vars

\* C28 witness: info has printed the record of the current thread T2 after
\* one request on T2's channel and one on the default channel.
C28_Witness ==
    /\ caller = "info" /\ pc = "poll"
    /\ current_breakpoint # NoBreakpoint
    /\ bp_command_indices["T2"] = 1 /\ nextFile = 1

\* The step in which handle_command has run restart.
RestartCommand == pc = "queues" /\ caller' = "restart"

\* C30: after restart the session state is the initial one (nextFile 0, no
\* per-thread index, no current breakpoint, nothing pending, no thread
\* flagged), every transport file is removed, no file is watched, and the
\* event loop goes on with its next cycle.
C30_RestartResets ==
    [][RestartCommand =>
         /\ nextFile' = 0
         /\ bp_command_indices' = [t \in Threads |-> 0]
         /\ current_breakpoint' = NoBreakpoint
         /\ pending_breakpoints' = <<>>
         /\ \A t \in Threads : ~thread_state_is_bp'[t]
         /\ in_files' = {}
         /\ ~out_file'.exists /\ ~bp_out_file'.exists
         /\ ~bp_threads_file'.exists
         /\ \A t \in Threads : ~bp_data_file'[t].exists
         /\ watched_files' = {}
         /\ pc' = "poll"
      ]_vars

\* C30 witness: restart has run after T2 had halted and had been sent a
\* request while a.lua was watched.
C30_Witness ==
    /\ caller = "restart" /\ pc = "poll"
    /\ halts >= 1 /\ nextFile = 0 /\ watched_files = {}
    /\ current_breakpoint = NoBreakpoint

\* ------------------------------------------------- concurrency claims
\* C22: at most one request awaits its response: while a call of
\* send_data_to_game has neither matched nor timed out, no request file is
\* written, no command index is taken and no other call is entered.
C22_OneOutstanding ==
    [][pc = "wait" =>
         /\ {Tag(f) : f \in in_files'} \subseteq {Tag(f) : f \in in_files}
         /\ req' = req /\ written' = written
         /\ nextFile' = nextFile /\ bp_command_indices' = bp_command_indices
      ]_vars

\* C22 witness: a console line and a file change are queued while the
\* request of an earlier line is outstanding.
C22_Witness ==
    /\ pc = "wait" /\ caller = "cmd"
    /\ \E f \in in_files : Tag(f) = Tag(req) /\ ~f.abandoned
    /\ stdin_queue # <<>> /\ file_change_queue # <<>>

\* The steps of the stdin reader thread and of the watchdog callback.
ReaderStep == Len(stdin_queue') > Len(stdin_queue)
\* A queue without its last entry.
Front(q) == SubSeq(q, 1, Len(q) - 1)
WatcherStep == Len(file_change_queue') > Len(file_change_queue)

\* C23: the stdin reader and the file-watch callback only append to
\* stdin_queue / file_change_queue: their steps leave the session state,
\* the command indices, the request files and the position of the event
\* loop as they are, and entries leave the queues only in the event loop's
\* second and third step.
C23_ProducersOnlyEnqueue ==
    [][/\ ReaderStep =>
            /\ Front(stdin_queue') = stdin_queue
            /\ UNCHANGED <<pc, session, indices, in_files, file_change_queue>>
       /\ WatcherStep =>
            /\ Front(file_change_queue') = file_change_queue
            /\ UNCHANGED <<pc, session, indices, in_files, stdin_queue>>
       /\ stdin_queue' # stdin_queue /\ ~ReaderStep
            => pc = "queues" /\ stdin_queue' = Tail(stdin_queue)
       /\ file_change_queue' # file_change_queue /\ ~WatcherStep
            => pc = "queues" /\ file_change_queue' = Tail(file_change_queue)
      ]_vars

\* C23 witness: with T2 current and a request of its channel outstanding,
\* the reader has queued a line and the callback the path of a.lua.
C23_Witness ==
    /\ pc = "wait" /\ req.thread_id = "T2"
    /\ current_breakpoint # NoBreakpoint
    /\ stdin_queue = <<<<"return", "gold">>>>
    /\ file_change_queue = <<"a.lua">>

\* ------------------------------------------------------ locator claims
\* A line that declares a function, global or local.
DeclaresFunction(line) == \E k \in 1..Len(line) : line[k] = "function"

\* The line of the end that closes the function declared on line d: the
\* first line from d on at which as many blocks are closed as functions
\* were declared.
RECURSIVE ClosingEnd(_, _, _)
ClosingEnd(lines, j, depth) ==
    IF j > Len(lines) THEN 0
    ELSE IF DeclaresFunction(lines[j]) THEN ClosingEnd(lines, j + 1, depth + 1)
    ELSE IF ClosesBlock(lines[j])
         THEN IF depth = 1 THEN j ELSE ClosingEnd(lines, j + 1, depth - 1)
    ELSE ClosingEnd(lines, j + 1, depth)

\* The first line that declares func_name, 0 when there is none.
DeclarationLine(lines, func_name) ==
    LET heads == {i \in 1..Len(lines) : Declares(lines[i], func_name)}
    IN IF heads = {} THEN 0 ELSE CHOOSE i \in heads : \A k \in heads : i <= k

\* C24: for a source in which the function `outer` declares nested
\* functions, find_lua_function by the name outer returns the span from the
\* declaration line of outer to outer's own end, every nested declaration
\* and its end included.
C24_NestedSpan ==
    located.op = "find" /\ located.func_name = "outer"
      => LET d == DeclarationLine(located.lines, "outer")
             e == IF d = 0 THEN 0 ELSE ClosingEnd(located.lines, d, 0)
         IN /\ d # 0 /\ OpensFunction(located.lines[d])
            /\ \E k \in (d + 1)..e : DeclaresFunction(located.lines[k])
            => located.span = <<d, e>>

\* The line of the new content that holds the injected call.
InjectedAt ==
    CHOOSE k \in 1..Len(located.new_content) :
      located.new_content[k] = BreakpointCall

\* C25: inject_into_function adds the text as one line inside the located
\* span: directly after the declaration line by default, directly after
\* the after_line-th line of the span otherwise, hence after the
\* declaration line and before the end that closes the span; every other
\* line keeps its content and its place among the others.
C25_InjectedInsideSpan ==
    located.op \in {"modify", "bl"}
      => /\ Len(located.new_content) = Len(located.lines) + 1
         /\ SubSeq(located.new_content, 1, InjectedAt - 1)
              \o SubSeq(located.new_content, InjectedAt + 1,
                        Len(located.new_content))
              = located.lines
         /\ InjectedAt = located.span[1] + located.after_line
         /\ located.span[1] < InjectedAt
         /\ InjectedAt <= located.span[2]

\* C26: after the injection find_lua_function, run on the new content with
\* the same line number or name, returns the span that opens at the same
\* declaration line, holds the injected line and closes at the same end,
\* one line further down.
C26_RelocatedSameSpan ==
    located.op \in {"modify", "bl"}
      => /\ located.respan = <<located.span[1], located.span[2] + 1>>
         /\ located.respan[1] < InjectedAt
         /\ InjectedAt < located.respan[2]

\* ------------------------------------------------------------ short forms
\* The name a first word stands for on the CLI surface: the names and short
\* forms handle_command tests for, and r for restart.
LongForm(word) == IF word = "r" THEN "restart" ELSE Command(word)
\* The line with its first word written out.
Expand(line) == <<LongForm(Head(line))>> \o Tail(line)

\* C31: a line that starts with a short form has the same effect as the
\* line that starts with the long form: every step handle_command takes on
\* the one is a step it takes on the other; the line r is a restart and
\* writes no request.
C31_AliasesAsLongForms ==
    [][\A line \in AliasLines :
         /\ pc = "queues" /\ HandleCommand(line) => HandleCommand(Expand(line))
         /\ pc = "queues" /\ HandleCommand(Expand(line)) => HandleCommand(line)
      ]_vars

Appended ==
    {pending_breakpoints'[k] :
       k \in (Len(pending_breakpoints) + 1)..Len(pending_breakpoints')}
\* The record bp_data_<t>.txt holds.
RecordInFile(t) == ParseBpDataFile(t, bp_data_file[t])

\* C33: a thread that had been sent requests in an earlier halt and was
\* halted again by the remote is observed by the next poll, once: the poll
\* observes it only if the remote has halted it since its last observation,
\* the entry carries the record of the new halt, and the thread becomes
\* current if current is null or is appended to pending otherwise.
C33_RehaltObservedAnew ==
    [][PollStep =>
         \A t \in Threads :
           bp_command_indices[t] > 0 =>
             /\ Observed(t) => fresh[t]
             /\ fresh[t] /\ t \in ListedThreads =>
                  /\ Observed(t)
                  /\ IF current_breakpoint = NoBreakpoint
                     THEN \/ current_breakpoint' = <<t, RecordInFile(t)>>
                          \/ <<t, RecordInFile(t)>> \in Appended
                     ELSE /\ current_breakpoint' = current_breakpoint
                          /\ <<t, RecordInFile(t)>> \in Appended
      ]_vars

\* ------------------------------------------------------------- progress
\* The step in which handle_command has run continue / c.
ContinueIssued == pc = "queues" /\ HandleCommand(<<"continue">>)
\* t is flagged halted and is neither current nor pending.
Lost(t) == thread_state_is_bp[t] /\ t \notin CurrentThreads \cup PendingThreads

\* C34: if the operator keeps issuing continue and every continue returns,
\* then, thread switches in between or not, every thread flagged halted
\* becomes the current one, and no flagged thread stays outside both
\* current and pending forever.
C34_HaltsReachCurrent ==
    ([]<><<ContinueIssued>>_vars /\ []<>(pc # "wait"))
      => \A t \in TransportThreads :
           /\ thread_state_is_bp[t] ~> (CurrentThreads = {t})
           /\ Lost(t) ~> ~Lost(t)

\* --------------------------------------------- indices across halts
\* C35: resuming a thread leaves its command index as it is: the return of
\* a continue and the observation of a halt change no per-thread index,
\* only restart lowers one, and a request on a thread's channel takes the
\* thread's next index and advances it by one; hence the first request of
\* a later halt goes on where the earlier halts stopped and no tag of the
\* thread is issued twice.
C35_IndexKeptAcrossHalts ==
    [][/\ ContinueReturns \/ PollStep =>
            bp_command_indices' = bp_command_indices
       /\ \A t \in Threads :
            bp_command_indices'[t] < bp_command_indices[t] => RestartStep
       /\ SendStep /\ req'.thread_id # "" =>
            /\ req'.cmd_index = bp_command_indices[req'.thread_id]
            /\ bp_command_indices' =
                 [bp_command_indices EXCEPT ![req'.thread_id] = @ + 1]
      ]_vars

\* C35 witness: T1 was sent request 0 while it was halted for the first
\* time; it is now halted for the second time and its request 1 is
\* outstanding.
C35_Witness ==
    /\ pc = "wait"
    /\ req.thread_id = "T1" /\ req.cmd_index = 1
    /\ halts = 2
    /\ current_breakpoint # NoBreakpoint
    /\ current_breakpoint[1] = "T1"
    /\ current_breakpoint[2].bp_id = <<"2">>
    /\ \E f \in in_files : Tag(f) = <<"T1", 1>>

\* ------------------------------------------------- the returned value
\* C36: send_data_to_game returns None only by the timeout: a call that
\* ends by the match of a response returns a value other than None, also
\* when the result of the response is empty.
C36_NoneOnlyOnTimeout ==
    [][SendReturns /\ ret' = None => outcome' = "timeout"]_vars

\* C37: a span that find_lua_function returns for a line number holds that
\* line, from the declaration line to the closing end inclusive: a line
\* below the end of a function is not attributed to that function.
C37_LineInsideSpan ==
    located.op = "bl"
      => /\ located.span[1] <= located.line_number
         /\ located.line_number <= located.span[2]

\* The line of the end that closes the block opened on line j: the first
\* line from j on at which as many blocks are closed as were opened.
RECURSIVE OwnEnd(_, _, _)
OwnEnd(lines, j, depth) ==
    IF j > Len(lines) THEN 0
    ELSE IF OpensBlock(lines[j]) THEN OwnEnd(lines, j + 1, depth + 1)
    ELSE IF ClosesBlock(lines[j])
         THEN IF depth = 1 THEN j ELSE OwnEnd(lines, j + 1, depth - 1)
    ELSE OwnEnd(lines, j + 1, depth)

\* C38: when the body of the located function holds an if block or a
\* function without a name, the span find_lua_function returns still ends
\* at the end that closes the located function, not at the end of the
\* inner block.
C38_SpanEndsAtOwnEnd ==
    located.op \in {"find", "bl"} /\ located.span # None
      => LET d == located.span[1]
             e == OwnEnd(located.lines, d, 0)
         IN (\E k \in (d + 1)..e : OpensBlock(located.lines[k]))
              => located.span[2] = e

\* The lines bl sends: the function located again in the new content.
SentBody == SubSeq(located.new_content, located.respan[1], located.respan[2])

\* C39: when bl sends a request for a line between the declaration line
\* and the closing end of the function it located, both included, the body
\* it sends is that of the same function and holds the injected Breakpoint
\* call between the declaration line and the closing end.
C39_SentBodyHoldsCall ==
    /\ located.op = "bl" /\ located.respan # None
    /\ located.span[1] <= located.line_number
    /\ located.line_number <= located.span[2]
    => /\ \E k \in 2..(Len(SentBody) - 1) : SentBody[k] = BreakpointCall
       /\ SentBody[1] = located.lines[located.span[1]]

\* ------------------------------------------------------- console input
\* C40: stdin_queue is first in, first out, and a line leaves it only by
\* being dispatched: the reader appends the line it has read at the tail,
\* the event loop takes the line at the head and runs handle_command on it,
\* and nothing else changes the queue; and unless quit has ended the
\* program the queue does not stay at the same non-zero length forever,
\* that is, the line at its head is dispatched in the end.
C40_LinesDispatchedInOrder ==
    /\ [][stdin_queue' # stdin_queue =>
            \/ /\ stdin_queue' # <<>>
               /\ Front(stdin_queue') = stdin_queue
            \/ /\ pc = "queues"
               /\ stdin_queue # <<>>
               /\ stdin_queue' = Tail(stdin_queue)
               /\ HandleCommand(Head(stdin_queue))
         ]_vars
    /\ \A k \in 1..MaxQueue :
         []<>(Len(stdin_queue) # k \/ pc = "exit")

====
